---- MODULE Spec2Model ----
(***************************************************************************)
(* webhook-hub: a relay that receives Vercel and Hugging Face webhook      *)
(* events, optionally verifies an HMAC signature, formats a Discord embed  *)
(* and POSTs it to a Discord webhook.                                      *)
(*                                                                         *)
(* Text is modelled as a sequence of atoms (TLA+ strings).  Where the code *)
(* works on single characters (hex digests, SHAs, capitalisation, the      *)
(* comment preview) an atom is one character; elsewhere an atom is a chunk *)
(* of literal text.  Emoji in literals are written as ASCII names, and a   *)
(* backtick as "[bt]".                                                     *)
(***************************************************************************)
EXTENDS Integers, Sequences, FiniteSets, TLC

(***************************************************************************)
(* JavaScript values.  A scalar is [t, s]: t its type, s its text.         *)
(***************************************************************************)
Undef == [t |-> "undefined", s |-> <<>>]

Null == [t |-> "null", s |-> <<>>]

Str(s) == [t |-> "string", s |-> s]

\* A non-zero number whose decimal rendering is s.
Num(s) == [t |-> "number", s |-> s]

\* JavaScript truthiness: undefined, null and "" are falsy.
Truthy(v) ==
    \/ v.t = "number"
    \/ v.t = "object"
    \/ v.t = "string" /\ v.s # <<>>

\* a || b
OrElse(a, b) == IF Truthy(a) THEN a ELSE b

\* `${v}` : template-literal interpolation of a scalar.
Interp(v) ==
    CASE v.t = "undefined" -> <<"undefined">>
      [] v.t = "null" -> <<"null">>
      [] OTHER -> v.s

(***************************************************************************)
(* Text helpers.                                                           *)
(***************************************************************************)
\* String.prototype.startsWith
StartsWith(s, p) == Len(s) >= Len(p) /\ SubSeq(s, 1, Len(p)) = p

\* Index of the first occurrence of p in s, 0 when there is none.
IndexOf(s, p) ==
    LET hits == {i \in 1..(Len(s) - Len(p) + 1) : SubSeq(s, i, i + Len(p) - 1) = p}
    IN IF hits = {} THEN 0 ELSE CHOOSE i \in hits : \A j \in hits : i <= j

\* String.prototype.replace(p, "") with a string pattern: the first
\* occurrence only is removed.
RemoveFirst(s, p) ==
    LET i == IndexOf(s, p)
    IN IF i = 0 THEN s ELSE SubSeq(s, 1, i - 1) \o SubSeq(s, i + Len(p), Len(s))

\* substring(0, n) / slice(0, n) for n >= 0
Take(s, n) == SubSeq(s, 1, IF Len(s) < n THEN Len(s) ELSE n)

(***************************************************************************)
(* Hex encoding and decoding (Node's Buffer).                              *)
(***************************************************************************)
HexDigits == <<"0", "1", "2", "3", "4", "5", "6", "7",
               "8", "9", "a", "b", "c", "d", "e", "f">>

HexUpper == <<"0", "1", "2", "3", "4", "5", "6", "7",
              "8", "9", "A", "B", "C", "D", "E", "F">>

IsHex(c) == \E i \in 1..16 : HexDigits[i] = c \/ HexUpper[i] = c

HexVal(c) == (CHOOSE i \in 1..16 : HexDigits[i] = c \/ HexUpper[i] = c) - 1

\* digest('hex'): two lower-case digits per byte.
HexEncode(bytes) ==
    [i \in 1..(2 * Len(bytes)) |->
        IF i % 2 = 1 THEN HexDigits[(bytes[(i + 1) \div 2] \div 16) + 1]
        ELSE HexDigits[(bytes[i \div 2] % 16) + 1]]

\* Buffer.from(s, 'hex'): decodes pairs of hex digits and stops, without an
\* error, at the first pair that is not two hex digits; a trailing single
\* character is dropped.
RECURSIVE HexDecodeFrom(_, _)
HexDecodeFrom(s, i) ==
    IF i + 1 > Len(s) THEN <<>>
    ELSE IF ~IsHex(s[i]) \/ ~IsHex(s[i + 1]) THEN <<>>
    ELSE <<16 * HexVal(s[i]) + HexVal(s[i + 1])>> \o HexDecodeFrom(s, i + 2)

BufferFromHex(s) == HexDecodeFrom(s, 1)

(***************************************************************************)
(* HMAC.  The digest is a library primitive: it is modelled as a fixed     *)
(* function of (algorithm, secret, body) with the algorithm's digest       *)
(* length, different for the different secrets and bodies of the model.    *)
(***************************************************************************)
DigestBytes(alg) == IF alg = "sha1" THEN 20 ELSE 32

AtomCode ==
    ("hello" :> 1) @@ ("{}" :> 2) @@ ("null" :> 3) @@ ("json" :> 4)
    @@ ("s3cr3t" :> 5) @@ ("other" :> 6) @@ ("{oops" :> 8)

RECURSIVE TextCode(_)
TextCode(s) == IF s = <<>> THEN 0 ELSE AtomCode[Head(s)] + 7 * TextCode(Tail(s))

HmacDigest(alg, secret, body) ==
    [i \in 1..DigestBytes(alg) |->
        (31 * TextCode(secret) + 17 * TextCode(body) + 7 * i + DigestBytes(alg)) % 256]

HmacHex(alg, secret, body) == HexEncode(HmacDigest(alg, secret, body))

(***************************************************************************)
(* utils/verifySignature.js                                                *)
(* A call returns [threw, val]: threw when an exception escapes, val the   *)
(* boolean returned otherwise.                                             *)
(***************************************************************************)
Returned(b) == [threw |-> FALSE, val |-> b]

Threw == [threw |-> TRUE, val |-> FALSE]

\* crypto.timingSafeEqual: throws RangeError when the byte lengths differ.
timingSafeEqual(a, b) == IF Len(a) # Len(b) THEN Threw ELSE Returned(a = b)

verifyHmacSignatureNoCatch(payload, signature, secret, algorithm) ==
    IF ~Truthy(payload) \/ ~Truthy(signature) \/ ~Truthy(secret)
    THEN Returned(FALSE)
    ELSE timingSafeEqual(BufferFromHex(signature.s),
                         BufferFromHex(HmacHex(algorithm, secret.s, payload.s)))

verifyHmacSignature(payload, signature, secret, algorithm) ==
    IF ~Truthy(payload) \/ ~Truthy(signature) \/ ~Truthy(secret)
    THEN Returned(FALSE)
    ELSE LET expectedSignature == HmacHex(algorithm, secret.s, payload.s)
             cmp == timingSafeEqual(BufferFromHex(signature.s),
                                    BufferFromHex(expectedSignature))
         IN IF cmp.threw THEN Returned(FALSE) ELSE cmp

Sha1Prefix == <<"s", "h", "a", "1", "=">>

Sha256Prefix == <<"s", "h", "a", "2", "5", "6", "=">>

verifyVercelSignature(payload, signature, secret) ==
    IF ~Truthy(signature) \/ ~StartsWith(signature.s, Sha1Prefix)
    THEN Returned(FALSE)
    ELSE LET providedSignature == Str(RemoveFirst(signature.s, Sha1Prefix))
         IN verifyHmacSignature(payload, providedSignature, secret, "sha1")

verifyGitHubSignature(payload, signature, secret) ==
    IF ~Truthy(signature) \/ ~StartsWith(signature.s, Sha256Prefix)
    THEN Returned(FALSE)
    ELSE LET providedSignature == Str(RemoveFirst(signature.s, Sha256Prefix))
         IN verifyHmacSignature(payload, providedSignature, secret, "sha256")

(***************************************************************************)
(* Inputs of the signature functions.                                      *)
(***************************************************************************)
\* Raw bodies and secrets: absent, empty, or a text.
Bodies == {Undef, Str(<<>>), Str(<<"hello">>), Str(<<"{}">>)}

Secrets == {Undef, Str(<<>>), Str(<<"s3cr3t">>), Str(<<"other">>)}

\* d with its i-th character replaced by c.
SetChar(d, i, c) == [d EXCEPT ![i] = c]

\* Another lower-case hex digit than c.
OtherHex(c) == IF c = "0" THEN "1" ELSE "0"

\* The upper-case form of a digest.
ToUpperHex(d) == [i \in 1..Len(d) |-> HexUpper[HexVal(d[i]) + 1]]

\* Digest texts an attacker or a client may put after the prefix, derived
\* from the correct digest d.
DigestVariants(d) ==
    { d,                                     \* the correct digest
      <<>>,                                  \* nothing
      SetChar(d, 1, OtherHex(d[1])),         \* first character flipped
      SetChar(d, Len(d), OtherHex(d[Len(d)])), \* last character flipped
      SetChar(d, Len(d), "g"),               \* last character not a hex digit
      SubSeq(d, 1, Len(d) - 2),              \* one byte short
      d \o <<"0", "0">>,                     \* one byte long
      d \o <<"0">>,                          \* followed by one more hex digit
      d \o <<"z", "z">>,                     \* followed by non-hex characters
      ToUpperHex(d) }                        \* upper-case hex

Prefixes == {<<>>, Sha1Prefix, Sha256Prefix}

\* Header values for a given body and secret: absent, or a prefix followed
\* by a variant of the sha1 or sha256 digest.
SignatureHeaders(body, secret) ==
    {Undef} \cup
    { Str(p \o v) : p \in Prefixes,
                    v \in DigestVariants(HmacHex("sha1", secret.s, body.s))
                          \cup DigestVariants(HmacHex("sha256", secret.s, body.s)) }

(***************************************************************************)
(* Notification messages (Discord embeds).                                 *)
(* url and description are scalars (Undef when the property is not set);   *)
(* timestamp is the clock value read by new Date() when the embed is built.*)
(***************************************************************************)
Field(name, value, inline) == [name |-> name, value |-> value, inline |-> inline]

NoEmbed ==
    [title |-> <<>>, description |-> Undef, color |-> 0, url |-> Undef,
     timestamp |-> 0, fields |-> <<>>, footer |-> <<>>, thumbnail |-> FALSE]

\* The outcome of building an embed: ok with the embed, or a TypeError thrown.
Built(e) == [ok |-> TRUE, embed |-> e]

BuildThrew == [ok |-> FALSE, embed |-> NoEmbed]

\* Colours (0xRRGGBB).
VercelBlue == 28915

VercelGreen == 55588

VercelRed == 16711680

HFOrange == 16739125

HFGold == 16766720

Indigo == 6514417

PRGreen == 2278750

DiscussionBlue == 3900150

Purple == 9133302

(***************************************************************************)
(* Vercel payloads.                                                        *)
(***************************************************************************)
\* "deployment.<kind>"
DeploymentType(kind) == Str(<<"deployment", ".", kind>>)

KnownKinds == {"created", "succeeded", "failed", "ready", "canceled"}

\* str.split(sep)[1] || undefined : the text between the first and the
\* second separator.
SplitSecond(s, sep) ==
    LET i == IndexOf(s, sep)
    IN IF i = 0 THEN Undef
       ELSE LET rest == SubSeq(s, i + Len(sep), Len(s))
                j == IndexOf(rest, sep)
            IN Str(IF j = 0 THEN rest ELSE SubSeq(rest, 1, j - 1))

\* x?.p of an object-or-missing record x.
Prop(x, p) == IF x.t = "object" THEN x[p] ELSE Undef

\* A request body that is not an object: absent, null, or a scalar.
\* MalformedBody is a body whose text is not JSON at all.
MalformedBody == [t |-> "malformed"]

\* A body longer than the parser's limit ('10mb').
OversizeBody == [t |-> "oversize"]

\* The README's "Test Hugging Face Webhook" request.  As printed its JSON
\* does not parse: the object inside "commits" is never closed.
ReadmePushAsPrinted == [t |-> "malformed", from |-> "README"]

\* The bodies that the parser does not turn into a value.
UnparsedBodies == {MalformedBody, OversizeBody, ReadmePushAsPrinted}

NonObjectPayloads == {[t |-> "undefined"], [t |-> "null"], [t |-> "string"]}

\* !payload || typeof payload !== 'object'
InvalidPayload(payload) == payload.t # "object"

NoDeployment == [t |-> "undefined", url |-> Undef, state |-> Undef,
                 target |-> Undef, sha |-> Undef]

\* sha stands for deployment.meta.githubCommitSha (Undef also when meta is
\* absent).
Deployment(url, state, target, sha) ==
    [t |-> "object", url |-> url, state |-> state, target |-> target, sha |-> sha]

NoProject == [t |-> "undefined", name |-> Undef]

Project(name) == [t |-> "object", name |-> name]

VercelPayload(type, deployment, project) ==
    [t |-> "object", type |-> type, deployment |-> deployment, project |-> project]

LongSha == <<"a", "b", "c", "1", "2", "3", "d", "e", "f", "4">>

VercelTypes ==
    {Undef} \cup {DeploymentType(k) : k \in KnownKinds \cup {"promoted"}}

VercelDeployments ==
    {NoDeployment} \cup
    { Deployment(url, state, target, sha) :
        url \in {Undef, Str(<<"x.vercel.app">>)},
        state \in {Undef, Str(<<"READY">>), Str(<<"BUILDING">>)},
        target \in {Undef, Str(<<"preview">>)},
        sha \in {Undef, Str(LongSha), Num(<<"42">>)} }

VercelProjects == {NoProject, Project(Str(<<"demo">>))}

(***************************************************************************)
(* The bundled senders: deploy-outfitly.sh (send_notification) and the     *)
(* GitHub workflow.  Both POST, without a signature header, a JSON object  *)
(* with the keys type, payload and region; deployment and project are      *)
(* members of payload, so at the top level they are absent.                *)
(***************************************************************************)
AppUrl == Str(<<"https://", "outfitly.vercel.app">>)

SenderRequest(type, state) ==
    [t |-> "object", type |-> type, deployment |-> NoDeployment, project |-> NoProject,
     payload |-> [t |-> "object",
                  deployment |-> Deployment(AppUrl, Str(<<state>>),
                                            Str(<<"production">>), Str(LongSha)),
                  project |-> Project(Str(<<"OutFitly">>))]]

\* The letters of the words that event types are made of.
Letters(word) ==
    CASE word = "success" -> <<"s", "u", "c", "c", "e", "s", "s">>
      [] word = "ed" -> <<"e", "d">>
      [] word = "created" -> <<"c", "r", "e", "a", "t", "e", "d">>
      [] word = "succeeded" -> <<"s", "u", "c", "c", "e", "e", "d", "e", "d">>
      [] word = "failed" -> <<"f", "a", "i", "l", "e", "d">>
      [] word = "ready" -> <<"r", "e", "a", "d", "y">>
      [] word = "canceled" -> <<"c", "a", "n", "c", "e", "l", "e", "d">>
      [] word = "promoted" -> <<"p", "r", "o", "m", "o", "t", "e", "d">>
      [] word = "successed" -> <<"s", "u", "c", "c", "e", "s", "s", "e", "d">>
      [] word = "faileded" -> <<"f", "a", "i", "l", "e", "d", "e", "d">>

KindWords ==
    KnownKinds \cup {"promoted", "successed", "faileded"}

\* The word that a run of letters spells.
WordOf(letters) == CHOOSE w \in KindWords : Letters(w) = letters

\* "type": "deployment.${{ steps.check.outputs.status }}ed"
WorkflowResultType(status) ==
    DeploymentType(WordOf(Letters(status) \o Letters("ed")))

\* The status check's outputs: status=success state=READY, or status=failed
\* state=ERROR.
WorkflowChecks ==
    { [status |-> "success", state |-> "READY"], [status |-> "failed", state |-> "ERROR"] }

WorkflowResultRequest(check) == SenderRequest(WorkflowResultType(check.status), check.state)

WorkflowResultRequests == { WorkflowResultRequest(c) : c \in WorkflowChecks }

\* The script's three calls of send_notification, and the workflow's
\* deployment.created notification (the same request as the script's).
ScriptRequests ==
    { SenderRequest(DeploymentType("created"), "BUILDING"),
      SenderRequest(DeploymentType("succeeded"), "READY"),
      SenderRequest(DeploymentType("failed"), "ERROR") }

BundledSenderRequests == ScriptRequests \cup WorkflowResultRequests

VercelPayloads ==
    NonObjectPayloads \cup
    { VercelPayload(type, d, p) :
        type \in VercelTypes, d \in VercelDeployments, p \in VercelProjects } \cup
    BundledSenderRequests

(***************************************************************************)
(* services/discord.js: createVercelEmbed                                  *)
(***************************************************************************)
VercelFooter == <<"Vercel">>

\* The switch on type: the title, colour and emoji of each event kind.
VercelStyle(type) ==
    CASE type = DeploymentType("created") ->
           [title |-> <<"[rocket]", " ", "Vercel Deployment", " ", "Started">>,
            color |-> VercelBlue, emoji |-> "[rocket]"]
      [] type = DeploymentType("succeeded") ->
           [title |-> <<"[check]", " ", "Vercel Deployment", " ", "Succeeded">>,
            color |-> VercelGreen, emoji |-> "[check]"]
      [] type = DeploymentType("failed") ->
           [title |-> <<"[cross]", " ", "Vercel Deployment", " ", "Failed">>,
            color |-> VercelRed, emoji |-> "[cross]"]
      [] type = DeploymentType("ready") ->
           [title |-> <<"[party]", " ", "Vercel Deployment", " ", "Ready">>,
            color |-> VercelGreen, emoji |-> "[party]"]
      [] OTHER ->
           [title |-> <<"[package]", " ", "Vercel Deployment", " ", "Update">>,
            color |-> VercelBlue, emoji |-> "[package]"]

\* A variant that links the deployment for the ready event only.
ShowsDeploymentUrlReadyOnly(payload) ==
    /\ Truthy(Prop(payload.deployment, "url"))
    /\ payload.type = DeploymentType("ready")

\* deployment?.url && (type === 'deployment.ready' || type === 'deployment.succeeded')
ShowsDeploymentUrl(payload) ==
    /\ Truthy(Prop(payload.deployment, "url"))
    /\ payload.type \in {DeploymentType("ready"), DeploymentType("succeeded")}

DeploymentUrlField(url) ==
    Field(<<"[link] Deployment URL">>,
          <<"[">> \o Interp(url) \o <<"](", "https://">> \o Interp(url) \o <<")">>,
          FALSE)

createVercelEmbed(payload, now) ==
    LET deployment == payload.deployment
        project == payload.project
        type == payload.type
        style == VercelStyle(type)
        state == Prop(deployment, "state")
        sha == Prop(deployment, "sha")
        url == Prop(deployment, "url")
        \* type?.split(".") is evaluated only when deployment.state is falsy
        splitThrows == ~Truthy(state) /\ type.t \notin {"undefined", "null", "string"}
        status == OrElse(state,
                    OrElse(IF type.t = "string" THEN SplitSecond(type.s, <<".">>) ELSE Undef,
                           Str(<<"unknown">>)))
        \* githubCommitSha.substring exists on strings only
        shaThrows == Truthy(sha) /\ sha.t # "string"
        base == <<Field(<<"[construction] Project">>,
                        Interp(OrElse(Prop(project, "name"), Str(<<"Unknown">>))), TRUE),
                  Field(<<"[globe] Environment">>,
                        Interp(OrElse(Prop(deployment, "target"), Str(<<"production">>))), TRUE),
                  Field(<<"[calendar] Status">>, Interp(status), TRUE)>>
        withUrl == IF ShowsDeploymentUrl(payload)
                   THEN Append(base, DeploymentUrlField(url)) ELSE base
        withSha == IF Truthy(sha)
                   THEN Append(withUrl,
                               Field(<<"[link] Commit">>,
                                     <<"[bt]">> \o Take(sha.s, 8) \o <<"[bt]">>, TRUE))
                   ELSE withUrl
    IN IF splitThrows \/ shaThrows THEN BuildThrew
       ELSE Built([title |-> <<style.emoji, " ">>
                             \o Interp(OrElse(Prop(project, "name"), Str(<<"Project">>)))
                             \o <<" - ">>
                             \o Interp(OrElse(SplitSecond(style.title, <<" - ">>),
                                              Str(<<"Update">>))),
                   description |-> Undef,
                   color |-> style.color,
                   url |-> IF ShowsDeploymentUrl(payload)
                           THEN Str(<<"https://">> \o Interp(url)) ELSE Undef,
                   timestamp |-> now,
                   fields |-> withSha,
                   footer |-> VercelFooter,
                   thumbnail |-> FALSE])

(***************************************************************************)
(* routes/vercel.js: handleGenericEvent builds this embed before sending.  *)
(***************************************************************************)
VercelGenericEmbed(payload, eventType, now) ==
    LET url == Prop(payload.deployment, "url")
    IN Built([title |-> <<"[zap] Vercel Event: ">> \o Interp(eventType),
              description |-> Str(<<"Received ">> \o Interp(eventType)
                                  \o <<" event from Vercel">>),
              color |-> VercelBlue,
              url |-> IF Truthy(url) THEN Str(<<"https://">> \o Interp(url)) ELSE Undef,
              timestamp |-> now,
              fields |-> <<Field(<<"[construction] Project">>,
                                 Interp(OrElse(Prop(payload.project, "name"),
                                               Str(<<"Unknown">>))), TRUE),
                           Field(<<"[bell] Event Type">>, Interp(eventType), TRUE)>>,
              footer |-> VercelFooter,
              thumbnail |-> FALSE])

\* payload.type || 'deployment.unknown'
VercelEventType(payload) == OrElse(payload.type, DeploymentType("unknown"))

\* A variant of the route that sends every event to the deployment
\* formatter.
VercelBuildDeploymentOnly(payload, now) == createVercelEmbed(payload, now)

\* The switch of the route: the five deployment events go to
\* handleDeploymentEvent (createVercelEmbed), everything else to
\* handleGenericEvent.
VercelBuild(payload, now) ==
    LET eventType == VercelEventType(payload)
    IN IF eventType \in {DeploymentType(k) : k \in KnownKinds}
       THEN createVercelEmbed(payload, now)
       ELSE VercelGenericEmbed(payload, eventType, now)

(***************************************************************************)
(* Hugging Face payloads.                                                  *)
(***************************************************************************)
NoEvent == [t |-> "undefined", scope |-> Undef, action |-> Undef]

Event(scope, action) == [t |-> "object", scope |-> scope, action |-> action]

NoRepo == [t |-> "undefined", name |-> Undef, type |-> Undef, url |-> Undef,
           headSha |-> Undef]

Repo(name, type, url, headSha) ==
    [t |-> "object", name |-> name, type |-> type, url |-> url, headSha |-> headSha]

\* A url object {web: ...}; s holds the text of its web property.
UrlObject(web) == [t |-> "object", s |-> web]

\* u?.web
WebOf(u) == IF u.t = "object" /\ u.s # <<>> THEN Str(u.s) ELSE Undef

NullEntry == [t |-> "null", ref |-> Undef, oldSha |-> Undef, newSha |-> Undef]

RefEntry(ref, oldSha, newSha) ==
    [t |-> "object", ref |-> ref, oldSha |-> oldSha, newSha |-> newSha]

NoRefs == [t |-> "undefined", items |-> <<>>]

RefArray(items) == [t |-> "array", items |-> items]

\* updatedRefs holding a string instead of an array
RefsNotArray == [t |-> "string", items |-> <<>>]

NoConfig == [t |-> "undefined", keys |-> <<>>]

Config(keys) == [t |-> "object", keys |-> keys]

NoDiscussion == [t |-> "undefined", title |-> Undef, isPullRequest |-> FALSE,
                 url |-> Undef]

Discussion(title, isPullRequest, url) ==
    [t |-> "object", title |-> title, isPullRequest |-> isPullRequest, url |-> url]

NoComment == [t |-> "undefined", content |-> Undef, url |-> Undef]

Comment(content, url) == [t |-> "object", content |-> content, url |-> url]

NoRepository == [t |-> "undefined", name |-> Undef, html_url |-> Undef]

Repository(name, html_url) == [t |-> "object", name |-> name, html_url |-> html_url]

HFPayload(event, repo, updatedRefs, updatedConfig, discussion, comment, repository) ==
    [t |-> "object", event |-> event, repo |-> repo, updatedRefs |-> updatedRefs,
     updatedConfig |-> updatedConfig, discussion |-> discussion, comment |-> comment,
     repository |-> repository]

EmptyHFPayload ==
    HFPayload(NoEvent, NoRepo, NoRefs, NoConfig, NoDiscussion, NoComment, NoRepository)

\* Texts the code works on character by character.
TxtUpdate == <<"u", "p", "d", "a", "t", "e">>

TxtCreate == <<"c", "r", "e", "a", "t", "e">>

TxtFrob == <<"f", "r", "o", "b">>

TxtUpdated == <<"u", "p", "d", "a", "t", "e", "d">>

TxtCreated == <<"c", "r", "e", "a", "t", "e", "d">>

TxtModel == <<"m", "o", "d", "e", "l">>

TxtRepository == <<"r", "e", "p", "o", "s", "i", "t", "o", "r", "y">>

ShaA == <<"1", "1", "1", "1", "1", "1", "1", "a", "a">>

ShaB == <<"2", "2", "2", "2", "2", "2", "2", "b", "b">>

ShaHead == <<"9", "9", "9", "9", "9", "9", "9", "h", "h">>

MainRef == <<"refs/heads/", "main">>

DevRef == <<"refs/heads/", "dev">>

TagRef == <<"refs/tags/", "v1">>

\* The branch "feature/refs/tags/x".
NestedRef == <<"refs/heads/", "feature/", "refs/tags/", "x">>

UpperOf(c) ==
    CASE c = "u" -> "U" [] c = "c" -> "C" [] c = "f" -> "F"
      [] c = "m" -> "M" [] c = "r" -> "R" [] OTHER -> c

\* s.charAt(0).toUpperCase() + s.slice(1)
Capitalize(s) == IF s = <<>> THEN <<>> ELSE <<UpperOf(Head(s))>> \o Tail(s)

\* type.toLowerCase() of the two literals "Pull Request" and "Discussion"
LowerType(isPR) == IF isPR THEN <<"pull request">> ELSE <<"discussion">>

MaxRefs == 2

MaxCommentLen == 104

PreviewLimit == 100

Chars == <<"x", "y", "z">>

\* A comment text of n characters.
Content(n) == [i \in 1..n |-> Chars[(i % 3) + 1]]

RefEntries ==
    { RefEntry(Str(MainRef), Str(ShaA), Str(ShaB)),
      RefEntry(Str(DevRef), Null, Str(ShaA)),
      RefEntry(Str(TagRef), Str(ShaA), Null),
      RefEntry(Undef, Str(ShaA), Str(ShaB)),
      RefEntry(Str(NestedRef), Str(ShaA), Str(ShaB)),
      RefEntry(Str(DevRef), Str(ShaA), Num(<<"42">>)),
      NullEntry }

RECURSIVE SeqsUpTo(_, _)
SeqsUpTo(S, n) ==
    IF n = 0 THEN {<<>>}
    ELSE LET shorter == SeqsUpTo(S, n - 1)
         IN shorter \cup {Append(q, x) : q \in shorter, x \in S}

HFActions == {Undef, Str(TxtUpdate), Str(TxtCreate), Str(TxtFrob), Num(<<"7">>)}

FullRepo == Repo(Str(<<"user/model">>), Str(TxtModel),
                 UrlObject(<<"https://huggingface.co/user/model">>), Str(ShaHead))

HFRepos ==
    { NoRepo,
      FullRepo,
      Repo(Str(<<"user/model">>), Undef, Undef, Undef),
      Repo(Str(<<"user/model">>), Num(<<"3">>), Undef, Str(ShaHead)),
      Repo(Undef, Str(TxtModel), Str(<<"https://huggingface.co/user/model">>), Undef) }

HFDiscussions ==
    { NoDiscussion,
      Discussion(Str(<<"Fix typo">>), FALSE, UrlObject(<<"https://huggingface.co/d/1">>)),
      Discussion(Str(<<"Add weights">>), TRUE, Undef),
      Discussion(Undef, TRUE, UrlObject(<<"https://huggingface.co/d/2">>)) }

HFComments ==
    {NoComment, Comment(Undef, Undef), Comment(Num(<<"5">>), Undef)}
    \cup { Comment(Str(Content(n)), u) :
             n \in 0..MaxCommentLen,
             u \in {Undef, UrlObject(<<"https://huggingface.co/c/1">>)} }

PushPayloads ==
    { HFPayload(Event(Str(<<"repo.content">>), a), r, refs,
                NoConfig, NoDiscussion, NoComment, NoRepository) :
        a \in {Str(TxtUpdate), Str(TxtFrob)},
        r \in HFRepos,
        refs \in {NoRefs, RefsNotArray}
                 \cup {RefArray(q) : q \in SeqsUpTo(RefEntries, MaxRefs)} }

RepoEventPayloads ==
    { HFPayload(Event(Str(<<"repo">>), a), r, NoRefs,
                NoConfig, NoDiscussion, NoComment, NoRepository) :
        a \in HFActions, r \in HFRepos }

ConfigPayloads ==
    { HFPayload(Event(Str(<<"repo.config">>), a), r, NoRefs,
                c, NoDiscussion, NoComment, NoRepository) :
        a \in {Str(TxtUpdate), Str(TxtFrob)},
        r \in {NoRepo, FullRepo},
        c \in {NoConfig, Config(<<>>), Config(<<"private">>),
               Config(<<"private", "gated">>)} }

DiscussionPayloads ==
    { HFPayload(Event(Str(<<"discussion">>), a), r, NoRefs,
                NoConfig, d, NoComment, NoRepository) :
        a \in HFActions, r \in {NoRepo, FullRepo}, d \in HFDiscussions }

CommentPayloads ==
    { HFPayload(Event(Str(<<"discussion.comment">>), a), FullRepo, NoRefs,
                NoConfig, d, c, NoRepository) :
        a \in {Undef, Str(TxtCreate), Num(<<"7">>)},
        d \in {NoDiscussion, Discussion(Str(<<"Add weights">>), TRUE, Undef)},
        c \in HFComments }

OtherPayloads ==
    { HFPayload(e, r, NoRefs, NoConfig, NoDiscussion, NoComment, y) :
        e \in {NoEvent} \cup { Event(sc, a) :
                                 sc \in {Undef, Str(<<"repo.webhook">>), Num(<<"1">>)},
                                 a \in {Undef, Str(TxtUpdate), Num(<<"7">>)} },
        r \in HFRepos,
        y \in {NoRepository,
               Repository(Str(<<"gh/repo">>), Str(<<"https://github.com/gh/repo">>))} }

\* The README's request with the missing brace restored: the keys repo (name,
\* url: a string), commits and ref; there is no event object.
ReadmePushRepaired ==
    [t |-> "object", event |-> NoEvent,
     repo |-> Repo(Str(<<"my-awesome-model">>), Undef,
                   Str(<<"https://huggingface.co/username/my-awesome-model">>), Undef),
     updatedRefs |-> NoRefs, updatedConfig |-> NoConfig, discussion |-> NoDiscussion,
     comment |-> NoComment, repository |-> NoRepository,
     commits |-> <<[id |-> <<"a", "b", "c", "1", "2", "3", "d", "e", "f", "4", "5", "6">>,
                    message |-> <<"Update model weights and documentation">>,
                    author |-> <<"John Doe">>]>>,
     ref |-> <<"refs/heads/", "main">>]

HFPayloads ==
    NonObjectPayloads \cup PushPayloads \cup RepoEventPayloads \cup ConfigPayloads
    \cup DiscussionPayloads \cup CommentPayloads \cup OtherPayloads
    \cup {ReadmePushRepaired}

(***************************************************************************)
(* services/discord.js: createHuggingFaceEmbed                             *)
(***************************************************************************)
HFBotFooter == <<"Hugging Face - WebhookBot">>

HFFooter == <<"Hugging Face">>

\* A variant that takes the first updated ref without looking for main.
FindMainNever(items) ==
    IF items # <<>> /\ Head(items).t # "object"
    THEN [threw |-> TRUE, found |-> FALSE, entry |-> NullEntry]
    ELSE [threw |-> FALSE, found |-> FALSE, entry |-> NullEntry]

\* updatedRefs.find(ref => ref.ref === "refs/heads/main"): the callback
\* reads ref.ref of each entry up to the first match, and throws on a null
\* entry.  [threw, found, entry]
RECURSIVE FindMain(_)
FindMain(items) ==
    IF items = <<>> THEN [threw |-> FALSE, found |-> FALSE, entry |-> NullEntry]
    ELSE IF Head(items).t # "object"
         THEN [threw |-> TRUE, found |-> FALSE, entry |-> NullEntry]
    ELSE IF Head(items).ref = Str(MainRef)
         THEN [threw |-> FALSE, found |-> TRUE, entry |-> Head(items)]
    ELSE FindMain(Tail(items))

\* The label of one updated ref; the entry must be an object whose ref is a
\* string (ref.ref.replace).
RefThrows(e) == e.t # "object" \/ e.ref.t # "string"

RefAction(e) ==
    IF e.oldSha = Null THEN <<"created">>
    ELSE IF e.newSha = Null THEN <<"deleted">>
    ELSE <<"updated">>

RefLabel(e) ==
    <<"[bt]">> \o RemoveFirst(RemoveFirst(e.ref.s, <<"refs/heads/">>), <<"refs/tags/">>)
    \o <<"[bt]", " (">> \o RefAction(e) \o <<")">>

\* labels.join(", ")
RECURSIVE JoinComma(_)
JoinComma(texts) ==
    IF texts = <<>> THEN <<>>
    ELSE IF Len(texts) = 1 THEN Head(texts)
    ELSE Head(texts) \o <<", ">> \o JoinComma(Tail(texts))

createHuggingFaceEmbed(payload, now) ==
    LET repo == payload.repo
        repoName == OrElse(Prop(repo, "name"), Str(<<"unknown">>))
        repoUrl == OrElse(WebOf(Prop(repo, "url")),
                          Str(<<"https://huggingface.co/">> \o Interp(repoName)))
        repoType == OrElse(Prop(repo, "type"), Str(TxtRepository))
        headSha == Prop(repo, "headSha")
        \* payload.updatedRefs || []
        notArray == payload.updatedRefs.t = "string"
        updatedRefs == payload.updatedRefs.items
        found == FindMain(updatedRefs)
        mainRef == IF found.found THEN found.entry
                   ELSE IF updatedRefs = <<>> THEN NullEntry ELSE updatedRefs[1]
        commitSha == OrElse(mainRef.newSha, headSha)
        \* commitSha?.slice(0, 7) || "n/a"
        shaThrows == commitSha.t \notin {"undefined", "null", "string"}
        shortSha == OrElse(IF commitSha.t = "string" THEN Str(Take(commitSha.s, 7)) ELSE Undef,
                           Str(<<"n/a">>))
        typeThrows == repoType.t # "string"
        mapThrows == \E i \in 1..Len(updatedRefs) : RefThrows(updatedRefs[i])
        base == <<Field(<<"[package] Repository">>,
                        <<"[bt]">> \o Interp(repoName) \o <<"[bt]">>, TRUE),
                  Field(<<"[label] Type">>,
                        <<"[bt]">> \o Interp(repoType) \o <<"[bt]">>, TRUE),
                  Field(<<"[id] Commit SHA">>,
                        <<"[bt]">> \o Interp(shortSha) \o <<"[bt]">>, TRUE),
                  Field(<<"[calendar] Time">>, <<"<t:", ToString(now), ":F>">>, TRUE)>>
    IN IF notArray \/ found.threw \/ shaThrows \/ typeThrows \/ mapThrows
       THEN BuildThrew
       ELSE Built([title |-> <<"[rocket] New Push to Hugging Face ">>
                             \o Capitalize(repoType.s),
                   description |-> Str(<<"A fresh commit just landed in **[bt]">>
                                       \o Interp(repoName) \o <<"[bt]**.">>),
                   color |-> HFGold,
                   url |-> repoUrl,
                   timestamp |-> now,
                   fields |-> IF Len(updatedRefs) > 0
                              THEN Append(base,
                                     Field(<<"[herb] Updated References">>,
                                           JoinComma([i \in 1..Len(updatedRefs) |->
                                                        RefLabel(updatedRefs[i])]),
                                           FALSE))
                              ELSE base,
                   footer |-> HFBotFooter,
                   thumbnail |-> TRUE])

(***************************************************************************)
(* routes/hf.js: the embeds built by the event handlers.                   *)
(***************************************************************************)
\* payload.event?.action || dflt ; the handlers call action.charAt, which a
\* truthy non-string action does not have.
ActionOr(payload, dflt) == OrElse(Prop(payload.event, "action"), Str(dflt))

\* A variant whose description carries the time of formatting.
RepositoryEventEmbedDated(payload, now) ==
    Built([NoEmbed EXCEPT !.title = <<"[construction] Repository ">>,
                          !.description = Num(<<now>>),
                          !.color = HFOrange,
                          !.timestamp = now,
                          !.footer = HFBotFooter])

RepositoryEventEmbed(payload, now) ==
    LET action == ActionOr(payload, TxtUpdated)
        repoName == OrElse(Prop(payload.repo, "name"), Str(<<"Unknown">>))
        repoType == OrElse(Prop(payload.repo, "type"), Str(TxtRepository))
    IN IF action.t # "string" THEN BuildThrew
       ELSE Built([title |-> <<"[construction] Repository ">> \o Capitalize(action.s),
                   description |-> Str(<<"The ">> \o Interp(repoType) \o <<" **[bt]">>
                                       \o Interp(repoName) \o <<"[bt]** was ">>
                                       \o action.s \o <<".">>),
                   color |-> HFOrange,
                   url |-> WebOf(Prop(payload.repo, "url")),
                   timestamp |-> now,
                   fields |-> <<Field(<<"[package] Repository">>,
                                      <<"[bt]">> \o Interp(repoName) \o <<"[bt]">>, TRUE),
                                Field(<<"[label] Type">>,
                                      <<"[bt]">> \o Interp(repoType) \o <<"[bt]">>, TRUE),
                                Field(<<"[bell] Action">>,
                                      <<"[bt]">> \o action.s \o <<"[bt]">>, TRUE)>>,
                   footer |-> HFBotFooter,
                   thumbnail |-> FALSE])

ConfigEventEmbed(payload, now) ==
    LET repoName == OrElse(Prop(payload.repo, "name"), Str(<<"Unknown">>))
        \* Object.keys(payload.updatedConfig || {})
        configKeys == payload.updatedConfig.keys
    IN Built([title |-> <<"[gear] Configuration Updated">>,
              description |-> Str(<<"Configuration changes were made to **[bt]">>
                                  \o Interp(repoName) \o <<"[bt]**.">>),
              color |-> Indigo,
              url |-> WebOf(Prop(payload.repo, "url")),
              timestamp |-> now,
              fields |-> <<Field(<<"[package] Repository">>,
                                 <<"[bt]">> \o Interp(repoName) \o <<"[bt]">>, TRUE),
                           Field(<<"[wrench] Updated Settings">>,
                                 IF Len(configKeys) > 0
                                 THEN JoinComma([i \in 1..Len(configKeys) |->
                                                   <<"[bt]", configKeys[i], "[bt]">>])
                                 ELSE <<"Configuration updated">>,
                                 FALSE)>>,
              footer |-> HFBotFooter,
              thumbnail |-> FALSE])

\* A variant with one colour for discussions and pull requests.
DiscussionColorBlue(isPR) == DiscussionBlue

\* color: isPR ? 0x22c55e : 0x3b82f6
DiscussionColor(isPR) == IF isPR THEN PRGreen ELSE DiscussionBlue

DiscussionEventEmbed(payload, now) ==
    LET action == ActionOr(payload, TxtUpdated)
        discussion == payload.discussion
        repoName == OrElse(Prop(payload.repo, "name"), Str(<<"Unknown">>))
        isPR == discussion.isPullRequest
        type == IF isPR THEN <<"Pull Request">> ELSE <<"Discussion">>
    IN IF action.t # "string" THEN BuildThrew
       ELSE Built([title |-> <<"[speech] ">> \o type \o <<" ">> \o Capitalize(action.s),
                   description |-> Str(<<"A ">> \o LowerType(isPR) \o <<" was ">>
                                       \o action.s \o <<" in **[bt]">>
                                       \o Interp(repoName) \o <<"[bt]**.">>),
                   color |-> DiscussionColor(isPR),
                   url |-> WebOf(discussion.url),
                   timestamp |-> now,
                   fields |-> <<Field(<<"[package] Repository">>,
                                      <<"[bt]">> \o Interp(repoName) \o <<"[bt]">>, TRUE),
                                Field(<<"[memo] Title">>,
                                      Interp(OrElse(discussion.title, Str(<<"No title">>))),
                                      FALSE),
                                Field(<<"[bell] Action">>,
                                      <<"[bt]">> \o action.s \o <<"[bt]">>, TRUE)>>,
                   footer |-> HFBotFooter,
                   thumbnail |-> FALSE])

Ellipsis == <<".", ".", ".">>

\* comment.content ? (content.length > 100 ? content.substring(0, 100) + "..."
\*                                         : content) : "No content"
\* (a number has no length: it is shown as it is)
CommentPreviewAtLimit(content) ==
    IF ~Truthy(content) THEN <<"No content">>
    ELSE IF content.t = "string" /\ Len(content.s) >= PreviewLimit
         THEN Take(content.s, PreviewLimit) \o Ellipsis
    ELSE Interp(content)

CommentPreview(content) ==
    IF ~Truthy(content) THEN <<"No content">>
    ELSE IF content.t = "string" /\ Len(content.s) > PreviewLimit
         THEN Take(content.s, PreviewLimit) \o Ellipsis
    ELSE Interp(content)

CommentEventEmbed(payload, now) ==
    LET action == ActionOr(payload, TxtCreated)
        comment == payload.comment
        discussion == payload.discussion
        repoName == OrElse(Prop(payload.repo, "name"), Str(<<"Unknown">>))
        isPR == discussion.isPullRequest
    IN IF action.t # "string" THEN BuildThrew
       ELSE Built([title |-> <<"[thought] Comment ">> \o Capitalize(action.s),
                   description |-> Str(<<"A comment was ">> \o action.s \o <<" on a ">>
                                       \o LowerType(isPR) \o <<" in **[bt]">>
                                       \o Interp(repoName) \o <<"[bt]**.">>),
                   color |-> Purple,
                   url |-> WebOf(comment.url),
                   timestamp |-> now,
                   fields |-> <<Field(<<"[package] Repository">>,
                                      <<"[bt]">> \o Interp(repoName) \o <<"[bt]">>, TRUE),
                                Field(<<"[memo] Discussion">>,
                                      Interp(OrElse(discussion.title, Str(<<"No title">>))),
                                      FALSE),
                                Field(<<"[speech] Comment Preview">>,
                                      CommentPreview(comment.content), FALSE)>>,
                   footer |-> HFBotFooter,
                   thumbnail |-> FALSE])

\* `${eventScope}.${eventAction}`
HFEventType(payload) ==
    Str(Interp(Prop(payload.event, "scope")) \o <<".">>
        \o Interp(Prop(payload.event, "action")))

HFGenericEmbed(payload, eventType, now) ==
    LET repoUrl == OrElse(Prop(payload.repo, "url"), Prop(payload.repository, "html_url"))
    IN Built([title |-> <<"[hug] Hugging Face Event: ">> \o Interp(eventType),
              description |-> Str(<<"Received ">> \o Interp(eventType)
                                  \o <<" event from Hugging Face">>),
              color |-> HFOrange,
              url |-> IF Truthy(repoUrl) THEN repoUrl ELSE Undef,
              timestamp |-> now,
              fields |-> <<Field(<<"[package] Repository">>,
                                 Interp(OrElse(Prop(payload.repo, "name"),
                                          OrElse(Prop(payload.repository, "name"),
                                                 Str(<<"Unknown">>)))), TRUE),
                           Field(<<"[bell] Event Type">>, Interp(eventType), TRUE)>>,
              footer |-> HFFooter,
              thumbnail |-> FALSE])

\* The switch of the route on payload.event?.scope.
HFBuildPushDefault(payload, now) ==
    LET eventScope == Prop(payload.event, "scope")
    IN CASE eventScope = Str(<<"repo">>) -> RepositoryEventEmbed(payload, now)
         [] eventScope = Str(<<"repo.config">>) -> ConfigEventEmbed(payload, now)
         [] eventScope = Str(<<"discussion">>) -> DiscussionEventEmbed(payload, now)
         [] eventScope = Str(<<"discussion.comment">>) -> CommentEventEmbed(payload, now)
         [] OTHER -> createHuggingFaceEmbed(payload, now)

HFBuild(payload, now) ==
    LET eventScope == Prop(payload.event, "scope")
    IN CASE eventScope = Str(<<"repo.content">>) -> createHuggingFaceEmbed(payload, now)
         [] eventScope = Str(<<"repo">>) -> RepositoryEventEmbed(payload, now)
         [] eventScope = Str(<<"repo.config">>) -> ConfigEventEmbed(payload, now)
         [] eventScope = Str(<<"discussion">>) -> DiscussionEventEmbed(payload, now)
         [] eventScope = Str(<<"discussion.comment">>) -> CommentEventEmbed(payload, now)
         [] OTHER -> HFGenericEmbed(payload, HFEventType(payload), now)

(***************************************************************************)
(* The service: one request at a time is followed from its arrival to its  *)
(* response.                                                               *)
(*   env     process.env: discord (DISCORD_WEBHOOK_URL set), secret        *)
(*           (VERCEL_WEBHOOK_SECRET), nodeEnv (NODE_ENV)                   *)
(*   req     the request: route, wire (the JSON value of the body sent),   *)
(*           text (the body's bytes), signature (the x-vercel-signature    *)
(*           header), and what the body parser makes of it: payload        *)
(*           (req.body) and rawBody                                        *)
(*   now     the clock read while the request is handled                   *)
(*   pc      where the request is: idle, parser, middleware, handler,      *)
(*           awaitSend, done                                               *)
(*   res     the response written (status 0: none yet)                     *)
(*   writes  how many responses were written for the request               *)
(*   outbox  the POSTs issued to the Discord webhook for the request       *)
(*   sent    how the fetch settled ("none" while it has not) and what      *)
(*           sendDiscordEmbed returned                                     *)
(*   call    the last direct call of a signature function, with its result *)
(*   fmt     the results of formatting one payload, once and then again    *)
(*   inflight  the requests in flight when several are served at once      *)
(*   script  one run of deploy-outfitly.sh: where it is, the poll counter, *)
(*           the codes it read, the notifications it posted, its exit      *)
(***************************************************************************)
VARIABLES env, req, now, pc, res, writes, outbox, sent, call, fmt, inflight, script

vars == <<env, req, now, pc, res, writes, outbox, sent, call, fmt, inflight, script>>

MaxClock == 1

\* deploy-outfitly.sh before its first command: nothing read, nothing
\* posted, not exited (exit -1).
ScriptStart ==
    [pc |-> "created", i |-> 0, HTTP_CODE |-> "", HTTP_STATUS |-> "",
     notified |-> <<>>, exit |-> -1]

\* process.env: DISCORD_WEBHOOK_URL set or not, VERCEL_WEBHOOK_SECRET, NODE_ENV.
Envs ==
    [discord : BOOLEAN, secret : {Undef, Str(<<>>), Str(<<"s3cr3t">>)},
     nodeEnv : {"production", "development"}]

NoResponse ==
    [status |-> 0, error |-> <<>>, message |-> <<>>, success |-> FALSE,
     eventType |-> Undef]

ErrorResponse(status, error, message) ==
    [status |-> status, error |-> error, message |-> message, success |-> FALSE,
     eventType |-> Undef]

Ack(eventType) ==
    [status |-> 200, error |-> <<>>, message |-> <<"Webhook processed successfully">>,
     success |-> TRUE, eventType |-> eventType]

NotSent == [outcome |-> "none", status |-> 0, result |-> Returned(FALSE)]

\* wire is the body as sent ([t |-> "undefined"] when the request has none)
\* and text its characters; payload (req.body) and rawBody are set by the
\* body parser.
NoRequest ==
    [route |-> "none", wire |-> [t |-> "undefined"], text |-> Undef,
     payload |-> [t |-> "undefined"], rawBody |-> Undef, signature |-> Undef]

NoCall == [fn |-> "none", payload |-> Undef, signature |-> Undef, secret |-> Undef,
           out |-> Returned(FALSE)]

\* JSON.stringify(req.body), used when there is no raw body: undefined for
\* an absent body, the JSON text otherwise.
Stringify(payload) ==
    CASE payload.t = "undefined" -> Undef
      [] payload.t = "null" -> Str(<<"null">>)
      [] OTHER -> Str(<<"{}">>)

\* req.rawBody || JSON.stringify(req.body)
SignedText(r) == OrElse(r.rawBody, Stringify(r.payload))

EmptyVercelPayload == VercelPayload(Undef, NoDeployment, NoProject)

\* The text of a request body: none when the request has no body, the
\* empty text for a body of length 0, the JSON text otherwise.
RawBodiesFor(payload) ==
    CASE payload.t = "undefined" -> {Undef, Str(<<>>)}
      [] payload.t = "null" -> {Str(<<"null">>)}
      [] payload.t = "string" -> {Str(<<"hello">>)}
      [] payload.t = "malformed" -> {Str(<<"{oops">>)}
      [] payload.t = "oversize" -> {Str(<<"json">>)}
      [] payload \in {EmptyVercelPayload, EmptyHFPayload} -> {Str(<<"{}">>)}
      [] OTHER -> {Str(<<"json">>)}

\* The outcome of express.json: req.body and req.rawBody, or an error passed
\* to next().
Parsed(body, rawBody) ==
    [ok |-> TRUE, body |-> body, rawBody |-> rawBody, status |-> 0, message |-> <<>>]

ParseError(status, message) ==
    [ok |-> FALSE, body |-> [t |-> "undefined"], rawBody |-> Undef,
     status |-> status, message |-> message]

EmptyBodyOf(route) == IF route = "vercel" THEN EmptyVercelPayload ELSE EmptyHFPayload

\* express.json({ verify }) of Express 4 (the '*' route of app.js is an
\* Express 4 path): req.body starts as {} and stays so when the request has
\* no body (the verify hook is then not called) or a body of length 0; in
\* strict mode a JSON text that is not an object or array, like a text that
\* is not JSON, is a 400 error.  The verify hook stores the raw text.
expressJson(route, wire, text) ==
    CASE wire.t = "undefined" -> Parsed(EmptyBodyOf(route), text)
      [] wire.t = "object" -> Parsed(wire, text)
      [] wire.t = "malformed" -> ParseError(400, <<"Unexpected token o in JSON">>)
      [] wire.t = "oversize" -> ParseError(413, <<"request entity too large">>)
      [] OTHER -> ParseError(400, <<"Unexpected token in JSON (strict)">>)

\* The text the signature middleware will hash for a request.
TextToSign(route, wire, text) ==
    LET p == expressJson(route, wire, text)
    IN IF p.ok THEN OrElse(p.rawBody, Stringify(p.body)) ELSE text

\* The global error handler of app.js: error.status || 500, and the error's
\* message only in development mode.
GlobalErrorHandler(e, status, message) ==
    ErrorResponse(IF status # 0 THEN status ELSE 500,
                  <<"Internal Server Error">>,
                  IF e.nodeEnv = "development" THEN message
                  ELSE <<"Something went wrong">>)

\* The secret a sender signs with: the configured one, or its own.
SenderSecret(e) == IF Truthy(e.secret) THEN e.secret ELSE Str(<<"other">>)

\* Signature headers of incoming requests: absent, correct, and wrong ones.
RequestSignatures(e, text) ==
    LET d == HmacHex("sha1", SenderSecret(e).s, text.s)
    IN { Undef,
         Str(Sha1Prefix \o d),
         Str(Sha1Prefix \o SetChar(d, 1, OtherHex(d[1]))),
         Str(Sha1Prefix \o SubSeq(d, 1, Len(d) - 2)),
         Str(Sha256Prefix \o d) }

Init ==
    /\ env \in Envs
    /\ req = NoRequest
    /\ now = 0
    /\ pc = "idle"
    /\ res = NoResponse
    /\ writes = 0
    /\ outbox = <<>>
    /\ sent = NotSent
    /\ call = NoCall
    /\ fmt = <<>>
    /\ inflight = <<>>
    /\ script = ScriptStart

\* A request arrives on the Vercel route.
ReceiveVercel ==
    /\ pc = "idle"
    /\ \E wire \in VercelPayloads \cup UnparsedBodies, t \in 0..MaxClock :
         \E text \in RawBodiesFor(wire) :
           \E signature \in RequestSignatures(env, TextToSign("vercel", wire, text)) :
             /\ req' = [NoRequest EXCEPT !.route = "vercel", !.wire = wire,
                                         !.text = text, !.signature = signature]
             /\ now' = t
    /\ pc' = "parser"
    /\ UNCHANGED <<env, res, writes, outbox, sent, call, fmt, inflight, script>>

\* A variant that mounts the signature middleware on both routes.
AfterParserAlwaysVerify(route) == "middleware"

\* What runs after the body parser: router.post('/', verifyVercelWebhook,
\* handler) on the Vercel route, router.post('/', handler) on the Hugging
\* Face route.
AfterParser(route) == IF route = "vercel" THEN "middleware" ELSE "handler"

\* app.use(express.json(...)): the body parser runs before the routes.
jsonParser ==
    /\ pc = "parser"
    /\ LET p == expressJson(req.route, req.wire, req.text)
       IN IF p.ok
          THEN /\ req' = [req EXCEPT !.payload = p.body, !.rawBody = p.rawBody]
               /\ pc' = AfterParser(req.route)
               /\ UNCHANGED <<res, writes>>
          ELSE /\ res' = GlobalErrorHandler(env, p.status, p.message)
               /\ writes' = writes + 1
               /\ pc' = "done"
               /\ UNCHANGED req
    /\ UNCHANGED <<env, now, outbox, sent, call, fmt, inflight, script>>

\* createSignatureVerificationMiddleware('VERCEL_WEBHOOK_SECRET',
\* 'x-vercel-signature', verifyVercelSignature): what the middleware does
\* with the request: "next", "reject" (401), or "error" when the
\* verification function throws (Express then runs the global error handler).
MiddlewareOutcomeHeaderOnly(e, r) ==
    IF ~Truthy(e.secret) \/ Truthy(r.signature) THEN "next" ELSE "reject"

\* A variant that leaves an unconfigured chat webhook to the handler.
MiddlewareOutcomeConfigFirst(e, r) ==
    IF ~Truthy(e.secret) \/ ~e.discord THEN "next"
    ELSE IF ~verifyVercelSignature(SignedText(r), r.signature, e.secret).val
    THEN "reject" ELSE "next"

\* A variant that verifies the header whether or not a secret is set.
MiddlewareOutcomeAlwaysVerify(e, r) ==
    IF verifyVercelSignature(SignedText(r), r.signature, e.secret).val
    THEN "next" ELSE "reject"

MiddlewareOutcome(e, r) ==
    IF ~Truthy(e.secret) THEN "next"
    ELSE LET v == verifyVercelSignature(SignedText(r), r.signature, e.secret)
         IN IF v.threw THEN "error"
            ELSE IF ~v.val THEN "reject" ELSE "next"

verifyVercelWebhook ==
    /\ pc = "middleware"
    /\ LET o == MiddlewareOutcome(env, req)
       IN CASE o = "next" -> /\ pc' = "handler"
                             /\ UNCHANGED <<res, writes>>
            [] o = "reject" -> /\ pc' = "done"
                               /\ res' = ErrorResponse(401, <<"Invalid signature">>, <<>>)
                               /\ writes' = writes + 1
            [] OTHER -> /\ pc' = "done"
                        /\ res' = GlobalErrorHandler(env, 0, <<"TypeError">>)
                        /\ writes' = writes + 1
    /\ UNCHANGED <<env, req, now, outbox, sent, call, fmt, inflight, script>>

(***************************************************************************)
(* services/discord.js: sendDiscordEmbed issues one fetch whose body is    *)
(* {embeds: [embedData]}, and returns response.ok, or false when fetch     *)
(* rejects.                                                                *)
(***************************************************************************)
FetchOutcomes == {"ok", "http_error", "network_error"}

\* How a fetch settles: it rejects (network failure, status 0 here), or it
\* resolves to a response with an HTTP status.
HttpStatuses == {200, 204, 299, 300, 404, 500}

FetchResults ==
    {[rejected |-> TRUE, status |-> 0]}
    \cup {[rejected |-> FALSE, status |-> c] : c \in HttpStatuses}

\* response.ok
ResponseOk(r) == r.status >= 200 /\ r.status <= 299

OutcomeOf(r) ==
    IF r.rejected THEN "network_error"
    ELSE IF ResponseOk(r) THEN "ok" ELSE "http_error"

DiscordPostsWithRetry(embed) == <<[embeds |-> <<embed>>], [embeds |-> <<embed>>]>>

DiscordPosts(embed) == <<[embeds |-> <<embed>>]>>

\* A variant without the try/catch around the fetch.
sendDiscordEmbedNoCatch(r) ==
    IF r.rejected THEN Threw ELSE Returned(ResponseOk(r))

\* await fetch(...) inside try: a rejection is caught and gives false; a
\* response gives response.ok.
sendDiscordEmbed(r) ==
    IF r.rejected THEN Returned(FALSE)
    ELSE IF ~ResponseOk(r) THEN Returned(FALSE)
    ELSE Returned(TRUE)

(***************************************************************************)
(* routes/vercel.js and routes/hf.js: router.post('/')                     *)
(* The handler runs without suspension up to the fetch of sendDiscordEmbed:*)
(* it either responds at once, or issues the POST and awaits it.           *)
(***************************************************************************)
RespondNow(r) == [send |-> FALSE, res |-> r, embed |-> NoEmbed]

SendEmbed(e) == [send |-> TRUE, res |-> NoResponse, embed |-> e]

InternalError ==
    ErrorResponse(500, <<"Internal server error">>, <<"TypeError">>)

\* A variant without the configuration check.
VercelRouteOutcomeUnconfigured(e, payload, t) ==
    IF InvalidPayload(payload)
    THEN RespondNow(ErrorResponse(400, <<"Invalid payload">>, <<>>))
    ELSE LET b == VercelBuild(payload, t)
         IN IF b.ok THEN SendEmbed(b.embed) ELSE RespondNow(InternalError)

VercelRouteOutcome(e, payload, t) ==
    IF InvalidPayload(payload)
    THEN RespondNow(ErrorResponse(400, <<"Invalid payload">>, <<>>))
    ELSE IF ~e.discord
    THEN RespondNow(ErrorResponse(500, <<"Discord webhook not configured">>, <<>>))
    ELSE LET b == VercelBuild(payload, t)
         IN IF b.ok THEN SendEmbed(b.embed) ELSE RespondNow(InternalError)

HFRouteOutcome(e, payload, t) ==
    IF InvalidPayload(payload)
    THEN RespondNow(ErrorResponse(400, <<"Invalid payload">>, <<>>))
    ELSE IF ~e.discord
    THEN RespondNow(ErrorResponse(500, <<"Discord webhook not configured">>, <<>>))
    ELSE LET b == HFBuild(payload, t)
         IN IF b.ok THEN SendEmbed(b.embed) ELSE RespondNow(InternalError)

\* A variant that acknowledges the payload's type field as it is, without
\* the 'deployment.unknown' default.
EventTypeOfRaw(r) ==
    IF r.route = "vercel" THEN r.payload.type ELSE HFEventType(r.payload)

\* The classified event type of the acknowledgement.
EventTypeOf(r) ==
    IF r.route = "vercel" THEN VercelEventType(r.payload) ELSE HFEventType(r.payload)

\* What the route answers once the awaited handler has returned: the
\* handler's boolean is not looked at.  A throw of the handler reaches the
\* route's catch.
AfterSendStrict(r, result) ==
    IF result.threw \/ ~result.val THEN InternalError ELSE Ack(EventTypeOf(r))

\* A variant that reports a failed send to the caller as 502.
AfterSendBadGateway(r, result) ==
    IF result.threw THEN InternalError
    ELSE IF ~result.val THEN ErrorResponse(502, <<"Bad gateway">>, <<>>)
    ELSE Ack(EventTypeOf(r))

AfterSend(r, result) ==
    IF result.threw THEN InternalError ELSE Ack(EventTypeOf(r))

\* A request arrives on the Hugging Face route (no middleware).
ReceiveHF ==
    /\ pc = "idle"
    /\ \E wire \in HFPayloads \cup UnparsedBodies, t \in 0..MaxClock :
         \E text \in RawBodiesFor(wire) :
           \E signature \in {Undef, Str(Sha1Prefix)} :
             /\ req' = [NoRequest EXCEPT !.route = "hf", !.wire = wire,
                                         !.text = text, !.signature = signature]
             /\ now' = t
    /\ pc' = "parser"
    /\ UNCHANGED <<env, res, writes, outbox, sent, call, fmt, inflight, script>>

\* A variant that acknowledges at once and lets the send run on its own.
HandleWithoutAwait(o) ==
    IF o.send
    THEN /\ outbox' = outbox \o DiscordPosts(o.embed)
         /\ res' = Ack(EventTypeOf(req))
         /\ writes' = writes + 1
         /\ pc' = "done"
    ELSE /\ res' = o.res
         /\ writes' = writes + 1
         /\ pc' = "done"
         /\ UNCHANGED outbox

Handle(o) ==
    IF o.send
    THEN /\ outbox' = outbox \o DiscordPosts(o.embed)
         /\ pc' = "awaitSend"
         /\ UNCHANGED <<res, writes>>
    ELSE /\ res' = o.res
         /\ writes' = writes + 1
         /\ pc' = "done"
         /\ UNCHANGED outbox

VercelHandler ==
    /\ pc = "handler"
    /\ req.route = "vercel"
    /\ Handle(VercelRouteOutcome(env, req.payload, now))
    /\ UNCHANGED <<env, req, now, sent, call, fmt, inflight, script>>

HuggingFaceHandler ==
    /\ pc = "handler"
    /\ req.route = "hf"
    /\ Handle(HFRouteOutcome(env, req.payload, now))
    /\ UNCHANGED <<env, req, now, sent, call, fmt, inflight, script>>

\* The fetch settles: sendDiscordEmbed returns, the handler logs and
\* returns, and the route writes its response.
FetchCompletes ==
    /\ pc = "awaitSend"
    /\ \E r \in FetchResults :
         LET result == sendDiscordEmbed(r)
         IN /\ sent' = [outcome |-> OutcomeOf(r), status |-> r.status, result |-> result]
            /\ res' = AfterSend(req, result)
    /\ writes' = writes + 1
    /\ pc' = "done"
    /\ UNCHANGED <<env, req, now, outbox, call, fmt, inflight, script>>

\* The request/response cycle is over: nothing of the request is kept.
Finish ==
    /\ pc = "done"
    /\ pc' = "idle"
    /\ req' = NoRequest
    /\ now' = 0
    /\ res' = NoResponse
    /\ writes' = 0
    /\ outbox' = <<>>
    /\ sent' = NotSent
    /\ UNCHANGED <<env, call, fmt, inflight, script>>

Next ==
    \/ Finish
    \/ ReceiveVercel
    \/ ReceiveHF
    \/ jsonParser
    \/ verifyVercelWebhook
    \/ VercelHandler
    \/ HuggingFaceHandler
    \/ FetchCompletes

Spec == Init /\ [][Next]_vars

(***************************************************************************)
(* Direct calls of the signature functions, on every combination of body,  *)
(* header and secret of the model.                                         *)
(***************************************************************************)
CallVerifyVercel ==
    /\ call = NoCall
    /\ \E body \in Bodies, secret \in Secrets :
         \E signature \in SignatureHeaders(body, secret) :
           call' = [fn |-> "verifyVercelSignature", payload |-> body,
                    signature |-> signature, secret |-> secret,
                    out |-> verifyVercelSignature(body, signature, secret)]
    /\ UNCHANGED <<env, req, now, pc, res, writes, outbox, sent, fmt, inflight, script>>

CallVerifyGitHub ==
    /\ call = NoCall
    /\ \E body \in Bodies, secret \in Secrets :
         \E signature \in SignatureHeaders(body, secret) :
           call' = [fn |-> "verifyGitHubSignature", payload |-> body,
                    signature |-> signature, secret |-> secret,
                    out |-> verifyGitHubSignature(body, signature, secret)]
    /\ UNCHANGED <<env, req, now, pc, res, writes, outbox, sent, fmt, inflight, script>>

CallVerifyHmac ==
    /\ call = NoCall
    /\ \E body \in Bodies, secret \in Secrets :
         \E signature \in {Undef} \cup
                          {Str(v) : v \in DigestVariants(HmacHex("sha256", secret.s, body.s))} :
           call' = [fn |-> "verifyHmacSignature", payload |-> body,
                    signature |-> signature, secret |-> secret,
                    out |-> verifyHmacSignature(body, signature, secret, "sha256")]
    /\ UNCHANGED <<env, req, now, pc, res, writes, outbox, sent, fmt, inflight, script>>

\* The call has returned; its result is dropped.
Return ==
    /\ call # NoCall
    /\ call' = NoCall
    /\ UNCHANGED <<env, req, now, pc, res, writes, outbox, sent, fmt, inflight, script>>

NextVerify == CallVerifyVercel \/ CallVerifyGitHub \/ CallVerifyHmac \/ Return

SpecVerify == Init /\ [][NextVerify]_vars

(***************************************************************************)
(* Formatting one payload twice, at two clock times: the route's formatter *)
(* (the switch of the route and the embed builder it selects) is applied   *)
(* to an object payload, and then once more to the same payload.           *)
(***************************************************************************)
Formatted(route, payload, t) ==
    [route |-> route, payload |-> payload, at |-> t,
     out |-> IF route = "vercel" THEN VercelBuild(payload, t) ELSE HFBuild(payload, t)]

FormatVercel ==
    /\ fmt = <<>>
    /\ \E payload \in VercelPayloads \ NonObjectPayloads, t \in 0..MaxClock :
         fmt' = <<Formatted("vercel", payload, t)>>
    /\ UNCHANGED <<env, req, now, pc, res, writes, outbox, sent, call, inflight, script>>

FormatHF ==
    /\ fmt = <<>>
    /\ \E payload \in HFPayloads \ NonObjectPayloads, t \in 0..MaxClock :
         fmt' = <<Formatted("hf", payload, t)>>
    /\ UNCHANGED <<env, req, now, pc, res, writes, outbox, sent, call, inflight, script>>

FormatAgain ==
    /\ Len(fmt) = 1
    /\ \E t \in 0..MaxClock :
         fmt' = Append(fmt, Formatted(fmt[1].route, fmt[1].payload, t))
    /\ UNCHANGED <<env, req, now, pc, res, writes, outbox, sent, call, inflight, script>>

NextFormat == FormatVercel \/ FormatHF \/ FormatAgain

SpecFormat == Init /\ [][NextFormat]_vars

(***************************************************************************)
(* Several requests in flight.  Node runs one handler at a time, and a     *)
(* handler gives up control only at an await (the fetch of                 *)
(* sendDiscordEmbed); the middlewares of one request and the handlers of   *)
(* different requests interleave freely.  inflight[i] is the i-th request  *)
(* that arrived: its request, the clock it reads, where it is, its         *)
(* response, the POSTs issued for it and how its fetch settled.  The       *)
(* handlers keep the request in locals (const payload = req.body) and the  *)
(* modules have no variable that a request writes.                         *)
(***************************************************************************)
MaxRequests == 2

\* The requests that arrive while others are in flight.
ConcurrentPayload(route) ==
    IF route = "vercel"
    THEN VercelPayload(DeploymentType("ready"),
                       Deployment(Str(<<"x.vercel.app">>), Str(<<"READY">>), Undef,
                                  Str(LongSha)),
                       Project(Str(<<"demo">>)))
    ELSE HFPayload(Event(Str(<<"repo.content">>), Str(TxtUpdate)), FullRepo,
                   RefArray(<<RefEntry(Str(MainRef), Str(ShaA), Str(ShaB))>>),
                   NoConfig, NoDiscussion, NoComment, NoRepository)

ConcurrentArrivals(e) ==
    LET v == ConcurrentPayload("vercel")
        good == Str(Sha1Prefix \o HmacHex("sha1", SenderSecret(e).s, <<"json">>))
        arrival(route, wire, text, signature) ==
            [NoRequest EXCEPT !.route = route, !.wire = wire, !.text = text,
                              !.signature = signature]
    IN { arrival("vercel", v, Str(<<"json">>), good),
         arrival("vercel", v, Str(<<"json">>), Undef),
         arrival("hf", ConcurrentPayload("hf"), Str(<<"json">>), Undef),
         arrival("hf", HFPayload(Event(Str(<<"repo">>), Num(<<"7">>)), FullRepo, NoRefs,
                                 NoConfig, NoDiscussion, NoComment, NoRepository),
                 Str(<<"json">>), Undef),
         arrival("hf", [t |-> "null"], Str(<<"null">>), Undef) }

ConcurrentFetchResults ==
    { [rejected |-> TRUE, status |-> 0],
      [rejected |-> FALSE, status |-> 204],
      [rejected |-> FALSE, status |-> 500] }

NoFetch == [rejected |-> FALSE, status |-> 0]

Arrived(r, t) ==
    [req |-> r, now |-> t, pc |-> "parser", res |-> NoResponse, writes |-> 0,
     outbox |-> <<>>, fetch |-> NoFetch]

\* A variant in which the handlers read the request from a module-level
\* variable that every arriving request overwrites.
RequestOfLatest(fl, i) == fl[Len(fl)].req

\* The request a running middleware or handler works on: the req object it
\* was called with.
RequestOf(fl, i) == fl[i].req

Responded(p, r) == [p EXCEPT !.res = r, !.writes = @ + 1, !.pc = "done"]

\* express.json for request i.
ParserStep(e, fl, i) ==
    LET r == RequestOf(fl, i)
        p == expressJson(r.route, r.wire, r.text)
    IN IF p.ok
       THEN [fl[i] EXCEPT !.req = [r EXCEPT !.payload = p.body, !.rawBody = p.rawBody],
                          !.pc = IF r.route = "vercel" THEN "middleware" ELSE "handler"]
       ELSE Responded(fl[i], GlobalErrorHandler(e, p.status, p.message))

\* verifyVercelWebhook for request i.
MiddlewareStep(e, fl, i) ==
    LET o == MiddlewareOutcome(e, RequestOf(fl, i))
    IN CASE o = "next" -> [fl[i] EXCEPT !.pc = "handler"]
         [] o = "reject" ->
              Responded(fl[i], ErrorResponse(401, <<"Invalid signature">>, <<>>))
         [] OTHER -> Responded(fl[i], GlobalErrorHandler(e, 0, <<"TypeError">>))

\* router.post('/') for request i, up to its await.
HandlerStep(e, fl, i) ==
    LET r == RequestOf(fl, i)
        o == IF r.route = "vercel" THEN VercelRouteOutcome(e, r.payload, fl[i].now)
             ELSE HFRouteOutcome(e, r.payload, fl[i].now)
    IN IF o.send
       THEN [fl[i] EXCEPT !.outbox = @ \o DiscordPosts(o.embed), !.pc = "awaitSend"]
       ELSE Responded(fl[i], o.res)

\* The fetch of request i settles and its handler runs to the response.
SettleStep(e, fl, i, r) ==
    [Responded(fl[i], AfterSend(RequestOf(fl, i), sendDiscordEmbed(r)))
        EXCEPT !.fetch = r]

\* A request arrives; the clock it will read is the number of arrivals.
Arrive ==
    /\ Len(inflight) < MaxRequests
    /\ \E r \in ConcurrentArrivals(env) :
         inflight' = Append(inflight, Arrived(r, Len(inflight) + 1))
    /\ UNCHANGED <<env, req, now, pc, res, writes, outbox, sent, call, fmt, script>>

RunParser(i) ==
    /\ inflight[i].pc = "parser"
    /\ inflight' = [inflight EXCEPT ![i] = ParserStep(env, inflight, i)]
    /\ UNCHANGED <<env, req, now, pc, res, writes, outbox, sent, call, fmt, script>>

RunMiddleware(i) ==
    /\ inflight[i].pc = "middleware"
    /\ inflight' = [inflight EXCEPT ![i] = MiddlewareStep(env, inflight, i)]
    /\ UNCHANGED <<env, req, now, pc, res, writes, outbox, sent, call, fmt, script>>

RunHandler(i) ==
    /\ inflight[i].pc = "handler"
    /\ inflight' = [inflight EXCEPT ![i] = HandlerStep(env, inflight, i)]
    /\ UNCHANGED <<env, req, now, pc, res, writes, outbox, sent, call, fmt, script>>

Settle(i) ==
    /\ inflight[i].pc = "awaitSend"
    /\ \E r \in ConcurrentFetchResults :
         inflight' = [inflight EXCEPT ![i] = SettleStep(env, inflight, i, r)]
    /\ UNCHANGED <<env, req, now, pc, res, writes, outbox, sent, call, fmt, script>>

NextConcurrent ==
    \/ Arrive
    \/ \E i \in 1..Len(inflight) :
         RunParser(i) \/ RunMiddleware(i) \/ RunHandler(i) \/ Settle(i)

SpecConcurrent == Init /\ [][NextConcurrent]_vars

(***************************************************************************)
(* The service with its scheduling.  Node's event loop runs every callback *)
(* that is ready (the parser, the middleware, the handlers), and the       *)
(* outbound HTTP call eventually resolves or rejects.  Requests are drawn  *)
(* from the small set used for the requests in flight.                     *)
(***************************************************************************)
Receive ==
    /\ pc = "idle"
    /\ \E r \in ConcurrentArrivals(env), t \in 0..MaxClock :
         /\ req' = r
         /\ now' = t
    /\ pc' = "parser"
    /\ UNCHANGED <<env, res, writes, outbox, sent, call, fmt, inflight, script>>

NextLive ==
    \/ Finish
    \/ Receive
    \/ jsonParser
    \/ verifyVercelWebhook
    \/ VercelHandler
    \/ HuggingFaceHandler
    \/ FetchCompletes

SpecLive ==
    /\ Init /\ [][NextLive]_vars
    /\ WF_vars(jsonParser)
    /\ WF_vars(verifyVercelWebhook)
    /\ WF_vars(VercelHandler)
    /\ WF_vars(HuggingFaceHandler)
    /\ WF_vars(FetchCompletes)

(***************************************************************************)
(* deploy-outfitly.sh: one run of the script under "set -e".  The script   *)
(* posts deployment.created to the hub, triggers the deploy hook, polls    *)
(* the app up to 12 times and posts the terminal notification.  curl -s    *)
(* exits 0 whenever it got an HTTP response, whatever its status, and      *)
(* non-zero when the request itself failed; -w "%{http_code}" then prints  *)
(* 000.                                                                    *)
(***************************************************************************)
\* for i in {1..12}
PollLimit == 12

\* Exit statuses of curl: 0, could not resolve host, could not connect,
\* timed out.
CurlExits == {0, 6, 7, 28}

HttpCodes == {"200", "201", "301", "302", "404", "500"}

\* One curl request with -w "%{http_code}": its exit status and the code it
\* prints.
CurlRuns ==
    { [exit |-> 0, code |-> c] : c \in HttpCodes }
    \cup { [exit |-> x, code |-> "000"] : x \in CurlExits \ {0} }

\* [ "$HTTP_CODE" = "200" ] || [ "$HTTP_CODE" = "201" ]
Triggered(code) == code \in {"200", "201"}

\* [ "$HTTP_STATUS" = "200" ] || ... "301" ... "302"
Live(status) == status \in {"200", "301", "302"}

Notification(event_type, state) == [type |-> event_type, state |-> state]

\* send_notification: the curl that posts the notification is a simple
\* command of the function, so under "set -e" its failure ends the script
\* with curl's status before the test of $? is reached; otherwise the
\* function returns and the script goes on at next.
send_notification(s, event_type, state, curl, next) ==
    LET n == Append(s.notified, Notification(event_type, state))
    IN IF curl # 0
       THEN [s EXCEPT !.notified = n, !.pc = "exited", !.exit = curl]
       ELSE [s EXCEPT !.notified = n, !.pc = next]

OnlyScript == UNCHANGED <<env, req, now, pc, res, writes, outbox, sent, call, fmt, inflight>>

\* send_notification "deployment.created" "BUILDING" ...
NotifyCreated ==
    /\ script.pc = "created"
    /\ \E curl \in CurlExits :
         script' = send_notification(script, "deployment.created", "BUILDING",
                                     curl, "trigger")
    /\ OnlyScript

\* DEPLOY_RESPONSE=$(curl -s -w "%{http_code}" -X POST "$DEPLOY_HOOK_URL"):
\* the assignment has the status of the substitution, so a failed request
\* ends the script; otherwise HTTP_CODE decides between the poll loop and
\* the else branch.
TriggerDeploy ==
    /\ script.pc = "trigger"
    /\ \E r \in CurlRuns :
         script' =
            IF r.exit # 0
            THEN [script EXCEPT !.pc = "exited", !.exit = r.exit]
            ELSE IF Triggered(r.code)
            THEN [script EXCEPT !.HTTP_CODE = r.code, !.pc = "poll", !.i = 1]
            ELSE [script EXCEPT !.HTTP_CODE = r.code, !.pc = "refused"]
    /\ OnlyScript

\* One turn of the loop up to the notification: sleep, then
\* HTTP_STATUS=$(curl ... || echo "000"), then the if/elif.
PollStatus ==
    /\ script.pc = "poll"
    /\ \E r \in CurlRuns :
         script' =
            IF Live(r.code)
            THEN [script EXCEPT !.HTTP_STATUS = r.code, !.pc = "succeeded"]
            ELSE IF script.i = PollLimit
            THEN [script EXCEPT !.HTTP_STATUS = r.code, !.pc = "timeout"]
            ELSE [script EXCEPT !.HTTP_STATUS = r.code, !.i = @ + 1]
    /\ OnlyScript

\* send_notification "deployment.succeeded" "READY" ...; break
NotifySucceeded ==
    /\ script.pc = "succeeded"
    /\ \E curl \in CurlExits :
         script' = send_notification(script, "deployment.succeeded", "READY",
                                     curl, "summary")
    /\ OnlyScript

\* send_notification "deployment.failed" "ERROR" ... on the 12th turn; the
\* loop then ends.
NotifyTimeout ==
    /\ script.pc = "timeout"
    /\ \E curl \in CurlExits :
         script' = send_notification(script, "deployment.failed", "ERROR",
                                     curl, "summary")
    /\ OnlyScript

\* else: send_notification "deployment.failed" "ERROR" ...; exit 1
NotifyTriggerFailed ==
    /\ script.pc = "refused"
    /\ \E curl \in CurlExits :
         LET s == send_notification(script, "deployment.failed", "ERROR",
                                    curl, "exit1")
         IN script' = IF s.pc = "exit1"
                      THEN [s EXCEPT !.pc = "exited", !.exit = 1]
                      ELSE s
    /\ OnlyScript

\* The closing echo lines; the script ends with status 0.
PrintSummary ==
    /\ script.pc = "summary"
    /\ script' = [script EXCEPT !.pc = "exited", !.exit = 0]
    /\ OnlyScript

NextDeploy ==
    \/ NotifyCreated
    \/ TriggerDeploy
    \/ PollStatus
    \/ NotifySucceeded
    \/ NotifyTimeout
    \/ NotifyTriggerFailed
    \/ PrintSummary

SpecDeploy == Init /\ [][NextDeploy]_vars

(***************************************************************************)
(* Properties.                                                             *)
(***************************************************************************)
\* Vocabulary of the properties below.
OnVercel == req.route = "vercel"

OnHF == req.route = "hf"

SecretConfigured == Truthy(env.secret)

\* The body parser rejects the body of the request: it is JSON but not an
\* object, or not JSON, or longer than the limit.
BodyRejected == ~expressJson(req.route, req.wire, req.text).ok

\* The signature check of the request fails: a secret is configured and
\* verifyVercelSignature answers false for the header (an absent header
\* included).
FailsSignature ==
    /\ SecretConfigured
    /\ ~verifyVercelSignature(TextToSign(req.route, req.wire, req.text),
                              req.signature, env.secret).val

\* Payload validation fails: by the body parser, or in the route.
FailsPayload ==
    \/ BodyRejected
    \/ pc \notin {"idle", "parser"} /\ InvalidPayload(req.payload)

FailsConfig == ~env.discord

\* The embed of the (first) POST issued for the request.
SentEmbed == outbox[1].embeds[1]

HasField(embed, name, value) ==
    \E i \in 1..Len(embed.fields) :
        embed.fields[i].name = name /\ embed.fields[i].value = value

\* C1: on the Vercel route with VERCEL_WEBHOOK_SECRET configured, a request
\* whose x-vercel-signature header is absent or fails verification never
\* reaches the handler and no POST to the chat webhook is issued for it; if
\* its body got past the body parser and so reached the route, it is
\* answered 401.
C1_BadSignatureRejected ==
    (OnVercel /\ FailsSignature) =>
        /\ outbox = <<>>
        /\ pc \in {"parser", "middleware", "done"}
        /\ (pc = "done" /\ ~BodyRejected) => (res.status = 401 /\ writes = 1)

C1_Witness ==
    /\ OnVercel /\ FailsSignature
    /\ req.signature # Undef
    /\ req.payload.t = "object"
    /\ env.discord
    /\ pc = "done" /\ res.status = 401 /\ outbox = <<>>

\* The lower-case form of a text of hex digits.
ToLowerHex(d) == [i \in 1..Len(d) |-> IF IsHex(d[i]) THEN HexDigits[HexVal(d[i]) + 1] ELSE d[i]]

\* C2: verifyVercelSignature (sha1) and verifyGitHubSignature (sha256)
\* return true only when the header is exactly the algorithm prefix followed
\* by the hex encoding of HMAC(body, secret) and nothing else (the case of
\* the hex digits left aside).
C2_OnlyExactSignatureAccepted ==
    /\ (call.fn = "verifyVercelSignature" /\ call.out.val) =>
          /\ StartsWith(call.signature.s, Sha1Prefix)
          /\ ToLowerHex(SubSeq(call.signature.s, Len(Sha1Prefix) + 1, Len(call.signature.s)))
               = HmacHex("sha1", call.secret.s, call.payload.s)
    /\ (call.fn = "verifyGitHubSignature" /\ call.out.val) =>
          /\ StartsWith(call.signature.s, Sha256Prefix)
          /\ ToLowerHex(SubSeq(call.signature.s, Len(Sha256Prefix) + 1, Len(call.signature.s)))
               = HmacHex("sha256", call.secret.s, call.payload.s)

\* C3: the signature functions never throw, and return false whenever the
\* body, the signature or the secret is missing or empty.
C3_VerifyNeverThrows ==
    call # NoCall =>
        /\ ~call.out.threw
        /\ (~Truthy(call.payload) \/ ~Truthy(call.signature) \/ ~Truthy(call.secret))
             => ~call.out.val

\* A call whose signature decodes to a digest of the wrong length, with
\* body and secret present: timingSafeEqual throws inside the function.
C3_Witness ==
    /\ call.fn = "verifyVercelSignature"
    /\ Truthy(call.payload) /\ Truthy(call.secret)
    /\ StartsWith(call.signature.s, Sha1Prefix)
    /\ Len(BufferFromHex(RemoveFirst(call.signature.s, Sha1Prefix))) \notin {0, DigestBytes("sha1")}
    /\ call.out = Returned(FALSE)

\* More than one of the three checks fails for the request (whose body is
\* within the parser's size limit).
SeveralChecksFail ==
    /\ req.wire # OversizeBody
    /\ \/ FailsPayload /\ FailsConfig
       \/ FailsPayload /\ OnVercel /\ FailsSignature
       \/ FailsConfig /\ OnVercel /\ FailsSignature

\* C4 as stated: when several checks fail, the status is that of the
\* earliest failing one in the order payload (400), configuration (500),
\* signature (401).
C4_PayloadConfigSignatureOrder ==
    (pc = "done" /\ SeveralChecksFail) =>
        res.status = IF FailsPayload THEN 400
                     ELSE IF FailsConfig THEN 500 ELSE 401

\* C4 amended: the order is payload (400, by the body parser), signature
\* (401, Vercel route only), configuration (500).
C4_PayloadSignatureConfigOrder ==
    (pc = "done" /\ SeveralChecksFail) =>
        res.status = IF FailsPayload THEN 400
                     ELSE IF OnVercel /\ FailsSignature THEN 401 ELSE 500

C4_Witness ==
    /\ pc = "done" /\ OnVercel
    /\ ~FailsPayload /\ FailsConfig /\ FailsSignature
    /\ res.status = 401

\* C5: a failed outbound send (non-2xx answer or network error) does not
\* change the inbound response, which is 200.
C5_SendFailureStillAcknowledged ==
    (pc = "done" /\ sent.outcome \in {"http_error", "network_error"}) =>
        /\ sent.result = Returned(FALSE)
        /\ res.status = 200
        /\ res.success

C5_Witness ==
    /\ pc = "done" /\ OnVercel /\ SecretConfigured
    /\ sent.outcome = "network_error"
    /\ res.status = 200

\* C6: at most one POST to the chat webhook is issued for a request; a
\* failed send is not retried, and a request answered 400, 401 or 500 has
\* issued none.
C6_AtMostOneSend ==
    /\ Len(outbox) <= 1
    /\ res.status \in {400, 401, 500} => outbox = <<>>
    /\ (pc = "done" /\ sent.outcome # "none") => Len(outbox) = 1

C6_Witness ==
    /\ pc = "done" /\ OnHF
    /\ sent.outcome = "http_error"
    /\ Len(outbox) = 1

\* C7: every object payload, whatever its shape, with the chat webhook
\* configured and the signature check passed or skipped, gets a
\* notification built, exactly one send attempted and a 200.
C7_AnyObjectPayloadAcknowledged ==
    (/\ pc = "done"
     /\ req.payload.t = "object"
     /\ env.discord
     /\ ~(OnVercel /\ FailsSignature)) =>
        /\ res.status = 200
        /\ Len(outbox) = 1

TxtDelete == <<"d", "e", "l", "e", "t", "e">>

TxtMove == <<"m", "o", "v", "e">>

RecognizedScopes ==
    {Str(<<"repo.content">>), Str(<<"repo">>), Str(<<"repo.config">>),
     Str(<<"discussion">>), Str(<<"discussion.comment">>)}

EventScope == Prop(req.payload.event, "scope")

EventAction == Prop(req.payload.event, "action")

\* The (scope, action) pairs the specification lists as recognized.
RecognizedPair ==
    \/ EventScope = Str(<<"repo.content">>) /\ EventAction = Str(TxtUpdate)
    \/ /\ EventScope = Str(<<"repo">>)
       /\ EventAction \in {Str(TxtCreate), Str(TxtDelete), Str(TxtUpdate), Str(TxtMove)}
    \/ EventScope = Str(<<"repo.config">>) /\ EventAction = Str(TxtUpdate)
    \/ EventScope \in {Str(<<"discussion">>), Str(<<"discussion.comment">>)}

\* "<scope>.<action>" as the payload spells them.
RawEventType == Interp(EventScope) \o <<".">> \o Interp(EventAction)

\* The repository name of the payload, "Unknown" when it has none.
RepositoryName ==
    IF Truthy(Prop(req.payload.repo, "name")) THEN Interp(req.payload.repo.name)
    ELSE IF Truthy(Prop(req.payload.repository, "name"))
         THEN Interp(req.payload.repository.name)
    ELSE <<"Unknown">>

\* The embed is the generic Hugging Face template for the request.
IsGenericTemplate(embed) ==
    /\ embed.title = <<"[hug] Hugging Face Event: ">> \o RawEventType
    /\ HasField(embed, <<"[package] Repository">>, RepositoryName)
    /\ HasField(embed, <<"[bell] Event Type">>, RawEventType)

\* A Hugging Face request with an object payload that got past the
\* configuration check and whose handler has run.
HFHandled ==
    /\ OnHF /\ req.payload.t = "object" /\ env.discord
    /\ pc \in {"awaitSend", "done"}

\* C8 as stated: every event whose (scope, action) pair is not a recognized
\* one, a recognized scope with an unrecognized action included, is sent as
\* the generic template with the repository name and "<scope>.<action>".
C8_UnrecognizedPairIsGeneric ==
    (HFHandled /\ outbox # <<>> /\ ~RecognizedPair) => IsGenericTemplate(SentEmbed)

\* C8 amended: every event whose scope is not a recognized one is sent, as
\* the generic template with the repository name and "<scope>.<action>"; an
\* event with a recognized scope is never sent as the generic template,
\* whatever its action.
C8_UnrecognizedScopeIsGeneric ==
    /\ (HFHandled /\ EventScope \notin RecognizedScopes) =>
          /\ Len(outbox) = 1
          /\ IsGenericTemplate(SentEmbed)
    /\ (HFHandled /\ outbox # <<>> /\ EventScope \in RecognizedScopes) =>
          ~IsGenericTemplate(SentEmbed)

C8_Witness ==
    /\ HFHandled /\ pc = "done"
    /\ EventScope = Str(<<"repo.webhook">>)
    /\ EventAction = Str(TxtUpdate)
    /\ req.payload.repo = FullRepo
    /\ IsGenericTemplate(SentEmbed)
    /\ HasField(SentEmbed, <<"[package] Repository">>, <<"user/model">>)

\* A well-formed Vercel deployment event: an object payload whose type is one
\* of the five deployment event kinds and whose commit SHA, when there is
\* one, is a string.
WellFormedDeploymentEvent ==
    /\ OnVercel /\ req.payload.t = "object"
    /\ req.payload.type \in {DeploymentType(k) : k \in KnownKinds}
    /\ req.payload.deployment.sha.t \in {"undefined", "string"}

\* The state of the event, i.e. its kind, is ready or succeeded.
DeploymentIsReady ==
    req.payload.type \in {DeploymentType("ready"), DeploymentType("succeeded")}

\* C9: for a well-formed Vercel deployment event that is ready or succeeded
\* and has a deployment URL (the chat webhook configured, the signature
\* check passed or skipped), the notification is sent with its link equal
\* to "https://" + url and with a clickable deployment-URL field.
C9_ReadyDeploymentHasLink ==
    (/\ WellFormedDeploymentEvent
     /\ DeploymentIsReady
     /\ Truthy(req.payload.deployment.url)
     /\ env.discord
     /\ ~FailsSignature
     /\ pc \in {"awaitSend", "done"}) =>
        /\ Len(outbox) = 1
        /\ SentEmbed.url = Str(<<"https://">> \o req.payload.deployment.url.s)
        /\ HasField(SentEmbed, <<"[link] Deployment URL">>,
                    <<"[">> \o req.payload.deployment.url.s \o <<"](", "https://">>
                    \o req.payload.deployment.url.s \o <<")">>)

C9_Witness ==
    /\ WellFormedDeploymentEvent /\ pc = "done"
    /\ req.payload.type = DeploymentType("succeeded")
    /\ req.payload.deployment.state = Str(<<"READY">>)
    /\ req.payload.deployment.url = Str(<<"x.vercel.app">>)
    /\ Len(outbox) = 1
    /\ SentEmbed.url = Str(<<"https://", "x.vercel.app">>)

\* The comment of a handled discussion.comment event is a non-empty text.
CommentSent ==
    /\ HFHandled /\ outbox # <<>>
    /\ EventScope = Str(<<"discussion.comment">>)
    /\ req.payload.comment.content.t = "string"
    /\ req.payload.comment.content.s # <<>>

\* The value of the comment-preview field of an embed.
PreviewOf(embed) ==
    LET i == CHOOSE j \in 1..Len(embed.fields) :
                 embed.fields[j].name = <<"[speech] Comment Preview">>
    IN embed.fields[i].value

\* C10: the comment preview is the first 100 characters followed by "..."
\* when the comment is longer than 100 characters, and the comment itself
\* when it has 1 to 100 characters; it is never longer than 100 characters
\* plus the marker.
C10_CommentPreviewTruncation ==
    CommentSent =>
        LET content == req.payload.comment.content.s
            preview == PreviewOf(SentEmbed)
        IN /\ Len(content) > 100 =>
                 preview = SubSeq(content, 1, 100) \o <<".", ".", ".">>
           /\ Len(content) <= 100 => preview = content
           /\ Len(preview) <= 100 + 3

C10_Witness ==
    /\ CommentSent /\ pc = "done"
    /\ Len(req.payload.comment.content.s) = 100
    /\ PreviewOf(SentEmbed) = req.payload.comment.content.s

\* C11 as stated: formatting the same payload twice, at two clock times, gives the
\* same outcome, and notifications that agree in title, description, colour,
\* fields, link and footer; only the timestamp follows the clock.
C11_FormattingDeterministic ==
    Len(fmt) = 2 =>
        LET a == fmt[1].out
            b == fmt[2].out
        IN /\ a.ok = b.ok
           /\ a.embed.title = b.embed.title
           /\ a.embed.description = b.embed.description
           /\ a.embed.color = b.embed.color
           /\ a.embed.fields = b.embed.fields
           /\ a.embed.url = b.embed.url
           /\ a.embed.footer = b.embed.footer
           /\ a.embed.thumbnail = b.embed.thumbnail
           /\ a.ok => (a.embed.timestamp = fmt[1].at /\ b.embed.timestamp = fmt[2].at)

\* The fields of an embed with the value of its time field, if it has one,
\* blanked.
TimeFieldName == <<"[calendar] Time">>

WithoutTime(fields) ==
    [i \in 1..Len(fields) |->
        IF fields[i].name = TimeFieldName
        THEN [fields[i] EXCEPT !.value = <<>>] ELSE fields[i]]

\* The embed is the push notification of createHuggingFaceEmbed.
IsPushTemplate(f) ==
    f.route = "hf" /\ Prop(f.payload.event, "scope") = Str(<<"repo.content">>)

\* C11 amended: formatting the same payload twice, at two clock times, gives
\* the same outcome, and notifications that agree in title, description,
\* colour, link, footer and fields, except for the timestamp and for the
\* value of the time field of the Hugging Face push notification, which
\* both show the clock time of the formatting; no other notification has a
\* time field.
C11_DeterministicApartFromTime ==
    Len(fmt) = 2 =>
        LET a == fmt[1].out
            b == fmt[2].out
        IN /\ a.ok = b.ok
           /\ a.embed.title = b.embed.title
           /\ a.embed.description = b.embed.description
           /\ a.embed.color = b.embed.color
           /\ a.embed.url = b.embed.url
           /\ a.embed.footer = b.embed.footer
           /\ a.embed.thumbnail = b.embed.thumbnail
           /\ WithoutTime(a.embed.fields) = WithoutTime(b.embed.fields)
           /\ ~IsPushTemplate(fmt[1]) => a.embed.fields = b.embed.fields
           /\ a.ok => (a.embed.timestamp = fmt[1].at /\ b.embed.timestamp = fmt[2].at)
           /\ \A i \in 1..Len(a.embed.fields) :
                 a.embed.fields[i].name = TimeFieldName =>
                    /\ IsPushTemplate(fmt[1])
                    /\ a.embed.fields[i].value = <<"<t:", ToString(fmt[1].at), ":F>">>
                    /\ b.embed.fields[i].value = <<"<t:", ToString(fmt[2].at), ":F>">>

\* A push event formatted at two different times: the two notifications
\* differ in the timestamp and in the time field only.
C11_Witness ==
    /\ Len(fmt) = 2
    /\ IsPushTemplate(fmt[1])
    /\ fmt[1].out.ok
    /\ fmt[1].at # fmt[2].at
    /\ fmt[1].out.embed.timestamp # fmt[2].out.embed.timestamp
    /\ fmt[1].out.embed.fields # fmt[2].out.embed.fields
    /\ WithoutTime(fmt[1].out.embed.fields) = WithoutTime(fmt[2].out.embed.fields)

\* C12: a request with no body, or whose body is null or not an object,
\* is answered 400 and no POST is issued for it (the signature check, where
\* one applies, passing or being skipped; stated here for a configured chat
\* webhook).
C12_NonObjectBodyRejected ==
    (/\ req.route # "none"
     /\ req.wire.t # "object" /\ req.wire # OversizeBody
     /\ env.discord
     /\ ~(OnVercel /\ FailsSignature)) =>
        /\ outbox = <<>>
        /\ pc = "done" => res.status = 400

\* C13 as stated: with no chat-webhook URL configured, every request with an
\* object payload is answered 500 on both routes, and nothing is sent.
C13_MissingConfigIs500 ==
    (/\ req.route # "none"
     /\ req.wire.t = "object"
     /\ ~env.discord) =>
        /\ outbox = <<>>
        /\ pc = "done" => res.status = 500

\* C13 amended: with no chat-webhook URL configured, every request whose
\* body got past the body parser and, on the Vercel route, past the
\* signature check (passed or skipped) is answered 500 "Discord webhook not
\* configured"; nothing is formatted or sent.
C13_MissingConfigIs500AfterSignature ==
    (/\ req.route # "none"
     /\ ~BodyRejected
     /\ ~(OnVercel /\ FailsSignature)
     /\ ~env.discord) =>
        /\ outbox = <<>>
        /\ pc # "awaitSend"
        /\ sent = NotSent
        /\ pc = "done" =>
              res = ErrorResponse(500, <<"Discord webhook not configured">>, <<>>)

C13_Witness ==
    /\ pc = "done" /\ OnVercel /\ ~env.discord
    /\ SecretConfigured /\ ~FailsSignature
    /\ req.wire.t = "object"
    /\ req.payload.type = DeploymentType("ready")
    /\ res.status = 500

\* What the Vercel route answers and posts for a parsed request when the
\* signature header plays no part: the handler's outcome alone.
HandlerAlone ==
    LET o == VercelRouteOutcome(env, req.payload, now)
    IN [res |-> IF o.send THEN AfterSend(req, sent.result) ELSE o.res,
        outbox |-> IF o.send THEN DiscordPosts(o.embed) ELSE <<>>]

\* C14: with no signature secret configured, verification is skipped on the
\* Vercel route: whatever the x-vercel-signature header is, the request
\* proceeds to the handler, is never answered 401, and its response and its
\* notification are those the handler gives for the payload alone.
C14_NoSecretSkipsVerification ==
    (OnVercel /\ ~SecretConfigured) =>
        /\ res.status # 401
        /\ ~FailsSignature
        /\ (pc = "middleware") =>
              \A h \in SignatureHeaders(req.text, Str(<<"other">>)) :
                  MiddlewareOutcome(env, [req EXCEPT !.signature = h]) = "next"
        /\ (pc = "done" /\ ~BodyRejected) =>
              (res = HandlerAlone.res /\ outbox = HandlerAlone.outbox)

\* No secret, a header with the wrong prefix, and the event is delivered.
C14_Witness ==
    /\ pc = "done" /\ OnVercel /\ ~SecretConfigured
    /\ req.signature.t = "string"
    /\ StartsWith(req.signature.s, Sha256Prefix)
    /\ req.payload.t = "object"
    /\ req.payload.type = DeploymentType("created")
    /\ res.status = 200
    /\ Len(outbox) = 1

\* C15: sendDiscordEmbed never throws and issues exactly one POST whose body
\* is {embeds: [message]}, the message being the notification built for the
\* request; it returns true exactly when the response status is 2xx, and
\* false for every other status and for a network failure.
C15_SendIsOnePostAndABoolean ==
    sent # NotSent =>
        /\ ~sent.result.threw
        /\ sent.result.val <=>
              (sent.outcome # "network_error" /\ sent.status \in 200..299)
        /\ sent.outcome \in {"http_error", "network_error"} => ~sent.result.val
        /\ outbox = <<[embeds |-> <<Formatted(req.route, req.payload, now).out.embed>>]>>

\* A response just outside the 2xx range.
C15_Witness ==
    /\ sent # NotSent
    /\ sent.status = 300
    /\ sent.result = Returned(FALSE)
    /\ Len(outbox) = 1
    /\ Len(outbox[1].embeds) = 1

\* What a request gets when it is processed alone: the response and the
\* POSTs of the pipeline applied to the request as it arrived, the clock it
\* read and the way its fetch settled.
ProcessedAlone(e, arrival, t, fetch) ==
    LET p == expressJson(arrival.route, arrival.wire, arrival.text)
        r == [arrival EXCEPT !.payload = p.body, !.rawBody = p.rawBody]
        o == IF r.route = "vercel" THEN VercelRouteOutcome(e, r.payload, t)
             ELSE HFRouteOutcome(e, r.payload, t)
    IN IF ~p.ok
       THEN [res |-> GlobalErrorHandler(e, p.status, p.message), outbox |-> <<>>]
       ELSE IF r.route = "vercel" /\ MiddlewareOutcome(e, r) = "reject"
       THEN [res |-> ErrorResponse(401, <<"Invalid signature">>, <<>>), outbox |-> <<>>]
       ELSE IF o.send
       THEN [res |-> AfterSend(r, sendDiscordEmbed(fetch)), outbox |-> DiscordPosts(o.embed)]
       ELSE [res |-> o.res, outbox |-> <<>>]

\* The request of inflight[i] as it arrived.
ArrivalOf(p) == [p.req EXCEPT !.payload = NoRequest.payload, !.rawBody = NoRequest.rawBody]

\* C16: with several requests in flight, under every interleaving, each
\* request's response (status and body) and its outbound notification are
\* those it gets when processed alone, and it is answered once.
C16_ConcurrentRequestsIndependent ==
    \A i \in 1..Len(inflight) :
        LET p == inflight[i]
            alone == ProcessedAlone(env, ArrivalOf(p), p.now, p.fetch)
        IN /\ p.writes <= 1
           /\ p.pc = "done" =>
                 /\ p.writes = 1
                 /\ p.res = alone.res
                 /\ p.outbox = alone.outbox
           /\ p.pc = "awaitSend" => p.outbox = alone.outbox

\* The first request is suspended at its outbound call while a later one,
\* on the other route, has been served in full.
C16_Witness ==
    /\ Len(inflight) = 2
    /\ inflight[1].pc = "awaitSend" /\ inflight[1].req.route = "vercel"
    /\ inflight[2].pc = "done" /\ inflight[2].req.route = "hf"
    /\ inflight[2].res.status = 200
    /\ inflight[2].outbox # inflight[1].outbox

\* The status text of an event kind: the last word of the title the switch
\* of createVercelEmbed fixes for it (Started, Succeeded, Failed, Ready,
\* Update).
StatusText(type) ==
    LET title == VercelStyle(type).title IN title[Len(title)]

\* C17: the title of the notification of a Vercel deployment event of a
\* known kind is "<emoji> <project name> - <status>" with the emoji, the
\* status text and the colour fixed for the kind, so that a succeeded and a
\* failed deployment get different status texts.
C17_TitleCarriesKindStatus ==
    (WellFormedDeploymentEvent /\ Len(outbox) = 1) =>
        LET style == VercelStyle(req.payload.type)
            name == OrElse(Prop(req.payload.project, "name"), Str(<<"Project">>))
        IN /\ SentEmbed.title = <<style.emoji, " ">> \o Interp(name)
                                   \o <<" - ", StatusText(req.payload.type)>>
           /\ SentEmbed.color = style.color

\* The messages of the errors thrown inside the service: the TypeError of a
\* handler or of the signature middleware, and the body parser's errors.
ThrownMessages ==
    { InternalError.message,
      expressJson("hf", MalformedBody, Str(<<"{oops">>)).message,
      expressJson("hf", [t |-> "null"], Str(<<"null">>)).message }

\* C18: every error response (status 400 and above) carries an error
\* category and a human-readable message, and in production mode the message
\* is not the message of a thrown error.
C18_ErrorsHaveCategoryAndMessage ==
    (pc = "done" /\ res.status >= 400) =>
        /\ res.error # <<>>
        /\ res.message # <<>>
        /\ env.nodeEnv = "production" => res.message \notin ThrownMessages

\* The request came from the bundled script or workflow.
FromBundledSender == OnVercel /\ req.payload \in BundledSenderRequests

\* The text appears in the title, in the value of a field or in the link.
Mentions(embed, text) ==
    \/ IndexOf(embed.title, text) # 0
    \/ \E i \in 1..Len(embed.fields) : IndexOf(embed.fields[i].value, text) # 0
    \/ embed.url.t = "string" /\ IndexOf(embed.url.s, text) # 0

\* C19: the message produced for a request of the bundled script or
\* workflow shows the project name, the (shortened) commit SHA and, for a
\* deployment that succeeded, the app URL that the request carries under
\* its "payload" key.
C19_BundledRequestDetailsShown ==
    (FromBundledSender /\ Len(outbox) = 1) =>
        LET inner == req.payload.payload
        IN /\ Mentions(SentEmbed, inner.project.name.s)
           /\ Mentions(SentEmbed, Take(inner.deployment.sha.s, 8))
           /\ req.payload.type = DeploymentType("succeeded") =>
                 Mentions(SentEmbed, <<inner.deployment.url.s[Len(inner.deployment.url.s)]>>)

\* The route sent the message of the deployment formatter.
DispatchedToDeploymentFormatter ==
    /\ Len(outbox) = 1
    /\ createVercelEmbed(req.payload, now).ok
    /\ SentEmbed = createVercelEmbed(req.payload, now).embed

\* C20: the workflow's result notification has type deployment.succeeded
\* when the status check reports success and deployment.failed when it
\* reports failure, and the route dispatches it to the deployment formatter.
C20_WorkflowResultIsDeploymentEvent ==
    \A c \in WorkflowChecks :
        (/\ OnVercel /\ req.payload = WorkflowResultRequest(c)
         /\ Len(outbox) = 1) =>
            /\ req.payload.type =
                  DeploymentType(IF c.status = "success" THEN "succeeded" ELSE "failed")
            /\ DispatchedToDeploymentFormatter

\* C21: POSTing the README's example push payload (with its JSON made
\* well-formed) to /webhook/huggingface, chat webhook configured, sends one
\* notification, and it shows the commit, the author, the branch and the
\* repository of that payload.
C21_ReadmePushExampleNotified ==
    (OnHF /\ req.wire = ReadmePushRepaired /\ env.discord /\ pc = "done") =>
        /\ Len(outbox) = 1
        /\ Mentions(SentEmbed, ReadmePushRepaired.repo.name.s)
        /\ Mentions(SentEmbed, Take(ReadmePushRepaired.commits[1].id, 7))
        /\ Mentions(SentEmbed, ReadmePushRepaired.commits[1].author)
        /\ Mentions(SentEmbed, <<"main">>)

\* The event type the claim expects for the request: on the Vercel route
\* the payload's type, "deployment.unknown" when it is missing; on the
\* Hugging Face route "<scope>.<action>".
ClassifiedEventType ==
    IF OnVercel
    THEN IF Truthy(req.payload.type) THEN req.payload.type ELSE DeploymentType("unknown")
    ELSE Str(RawEventType)

\* The notification sent is one of the two generic templates.
SentGeneric ==
    SentEmbed.title[1] \in {"[zap] Vercel Event: ", "[hug] Hugging Face Event: "}

\* C22: every 200 acknowledgement carries the classified event type of the
\* request; a Vercel request went to the deployment formatter exactly when
\* that type is one of the five deployment kinds, and a generic notification
\* shows that same type in its title and in its event-type field.
C22_AckCarriesEventType ==
    (pc = "done" /\ res.status = 200) =>
        /\ res.eventType = ClassifiedEventType
        /\ OnVercel =>
              (SentGeneric <=>
                 ClassifiedEventType \notin {DeploymentType(k) : k \in KnownKinds})
        /\ SentGeneric =>
              /\ SentEmbed.title = <<SentEmbed.title[1]>> \o Interp(res.eventType)
              /\ HasField(SentEmbed, <<"[bell] Event Type">>, Interp(res.eventType))

\* A Vercel request without a type has been acknowledged as
\* deployment.unknown after the generic notification was sent.
C22_Witness ==
    /\ pc = "done" /\ res.status = 200 /\ OnVercel
    /\ req.payload.type = Undef
    /\ res.eventType = DeploymentType("unknown")
    /\ SentGeneric

\* A notification has been sent for a Vercel request with an object payload.
VercelNotified == OnVercel /\ req.payload.t = "object" /\ Len(outbox) = 1

\* The kind of the event is one of the five the route lists.
KnownKind == req.payload.type \in {DeploymentType(k) : k \in KnownKinds}

\* The kind of the event is unknown: the payload has no type.
UnknownKind == req.payload.type = Undef

\* Project name, target environment and current state of the payload, with
\* the defaults "Unknown", "production" and the kind (or "unknown").
ProjectField ==
    Field(<<"[construction] Project">>,
          IF Truthy(Prop(req.payload.project, "name"))
          THEN req.payload.project.name.s ELSE <<"Unknown">>, TRUE)

EnvironmentField ==
    Field(<<"[globe] Environment">>,
          IF Truthy(Prop(req.payload.deployment, "target"))
          THEN req.payload.deployment.target.s ELSE <<"production">>, TRUE)

StateField ==
    Field(<<"[calendar] Status">>,
          IF Truthy(Prop(req.payload.deployment, "state"))
          THEN req.payload.deployment.state.s
          ELSE IF KnownKind THEN <<req.payload.type.s[3]>> ELSE <<"unknown">>, TRUE)

FirstThreeFieldsThenOptional ==
    /\ Len(SentEmbed.fields) >= 3
    /\ SubSeq(SentEmbed.fields, 1, 3) = <<ProjectField, EnvironmentField, StateField>>
    /\ \A i \in 4..Len(SentEmbed.fields) :
          SentEmbed.fields[i].name \in {<<"[link] Deployment URL">>, <<"[link] Commit">>}

\* C23 as stated: every notification sent for a Vercel event of a known
\* kind or of unknown kind has project name, target environment and current
\* state as its first three fields, defaults substituted, and only link and
\* commit fields after them.
C23_ProjectEnvironmentStateAlways ==
    (VercelNotified /\ (KnownKind \/ UnknownKind)) => FirstThreeFieldsThenOptional

\* C23 amended: that holds for the five known kinds; the notification of an
\* event of unknown kind is the generic one, whose fields are the project
\* name (default "Unknown") and the event type, without environment and
\* state.
C23_ProjectEnvironmentStateForKnownKinds ==
    /\ (VercelNotified /\ KnownKind) => FirstThreeFieldsThenOptional
    /\ (VercelNotified /\ UnknownKind) =>
          SentEmbed.fields =
            <<ProjectField,
              Field(<<"[bell] Event Type">>, DeploymentType("unknown").s, TRUE)>>

\* A succeeded deployment with URL and commit: the three fields, then the
\* link and the commit.
C23_Witness ==
    /\ VercelNotified /\ KnownKind /\ pc = "done"
    /\ Len(SentEmbed.fields) = 5
    /\ SentEmbed.fields[2] = EnvironmentField
    /\ SentEmbed.fields[4].name = <<"[link] Deployment URL">>
    /\ SentEmbed.fields[5].name = <<"[link] Commit">>

\* A push notification has been sent for the request.
PushSent ==
    /\ OnHF /\ req.payload.t = "object" /\ Len(outbox) = 1
    /\ EventScope = Str(<<"repo.content">>)

\* The name of a ref without its refs/heads/ or refs/tags/ prefix.
WithoutRefPrefix(ref) ==
    IF StartsWith(ref, <<"refs/heads/">>) \/ StartsWith(ref, <<"refs/tags/">>)
    THEN Tail(ref) ELSE ref

\* created without old SHA, deleted without new SHA, updated otherwise.
RefTag(e) ==
    CASE e.oldSha = Null -> "created"
      [] e.newSha = Null -> "deleted"
      [] OTHER -> "updated"

\* The updated refs in payload order, each once, separated by commas.
RECURSIVE RefsListed(_)
RefsListed(items) ==
    IF items = <<>> THEN <<>>
    ELSE (IF Len(items) = 1 THEN <<>> ELSE RefsListed(SubSeq(items, 1, Len(items) - 1))
                                           \o <<", ">>)
         \o <<"[bt]">> \o WithoutRefPrefix(items[Len(items)].ref.s)
         \o <<"[bt]", " (", RefTag(items[Len(items)]), ")">>

RefsFields ==
    {i \in 1..Len(SentEmbed.fields) :
        SentEmbed.fields[i].name = <<"[herb] Updated References">>}

\* C24: in a push notification with non-empty updatedRefs the
\* updated-references field lists every ref once, in payload order, without
\* its refs/heads/ or refs/tags/ prefix and tagged created (no old SHA),
\* deleted (no new SHA) or updated; with empty updatedRefs there is no such
\* field.
C24_UpdatedRefsListed ==
    PushSent =>
        LET refs == req.payload.updatedRefs.items
        IN IF refs = <<>> THEN RefsFields = {}
           ELSE \E i \in RefsFields :
                   /\ RefsFields = {i}
                   /\ SentEmbed.fields[i].value = RefsListed(refs)

\* The SHA the commit field is to show: the new SHA of the refs/heads/main
\* entry, else the new SHA of the first updated ref, else the repository's
\* head SHA; Undef when there is none of them.
PushedSha ==
    LET refs == req.payload.updatedRefs.items
        mains == {i \in 1..Len(refs) : refs[i].ref = Str(MainRef)}
        ofMain == IF mains = {} THEN Undef
                  ELSE refs[CHOOSE i \in mains : \A j \in mains : i <= j].newSha
        ofFirst == IF refs = <<>> THEN Undef ELSE refs[1].newSha
        ofHead == Prop(req.payload.repo, "headSha")
    IN IF ofMain.t = "string" THEN ofMain
       ELSE IF ofFirst.t = "string" THEN ofFirst
       ELSE IF ofHead.t = "string" THEN ofHead
       ELSE Undef

RecognizedScopeSent ==
    /\ OnHF /\ req.payload.t = "object" /\ Len(outbox) = 1
    /\ EventScope \in RecognizedScopes

\* The colour the table gives for the scope (0xRRGGBB): gold ffd700, orange
\* ff6b35, indigo 6366f1, green 22c55e, blue 3b82f6, purple 8b5cf6.
ScopeColour ==
    CASE EventScope = Str(<<"repo.content">>) -> 16766720
      [] EventScope = Str(<<"repo">>) -> 16739125
      [] EventScope = Str(<<"repo.config">>) -> 6514417
      [] EventScope = Str(<<"discussion">>) ->
           IF req.payload.discussion.isPullRequest THEN 2278750 ELSE 3900150
      [] EventScope = Str(<<"discussion.comment">>) -> 9133302

\* C26: the colour of a Hugging Face notification of a recognized scope is
\* the one fixed for the scope (for a discussion: by the pull-request flag),
\* whatever the other fields of the payload are.
C26_ColourByScope ==
    RecognizedScopeSent => SentEmbed.color = ScopeColour

\* A pull-request discussion has been notified in green.
C26_Witness ==
    /\ RecognizedScopeSent /\ EventScope = Str(<<"discussion">>)
    /\ req.payload.discussion.isPullRequest
    /\ SentEmbed.color = 2278750

\* C27 as stated: in every final state of a request exactly one response
\* has been written, its status is 200, 400, 401 or 500, and a send was
\* attempted exactly when the status is 200.
C27_OneResponseAndSendIffOk ==
    pc = "done" =>
        /\ writes = 1
        /\ res.status \in {200, 400, 401, 500}
        /\ outbox # <<>> <=> res.status = 200

\* C27 amended: the status is 200, 400, 401 or 500, or 413 when the body is
\* longer than the body parser's limit; the rest as stated.
C27_OneResponseAndSendIffOkOr413 ==
    pc = "done" =>
        /\ writes = 1
        /\ res.status \in {200, 400, 401, 413, 500}
        /\ res.status = 413 <=> req.wire = OversizeBody
        /\ outbox # <<>> <=> res.status = 200

\* A request with an oversize body has been answered 413, nothing sent.
C27_Witness ==
    /\ pc = "done" /\ writes = 1
    /\ req.wire = OversizeBody
    /\ res.status = 413 /\ outbox = <<>>

\* The request has arrived and has no response yet.
Pending == pc \in {"parser", "middleware", "handler", "awaitSend"}

\* C28: the acknowledgement is written only after the outbound call has
\* settled; while the call is outstanding the only step that answers the
\* request is the call's settling (there is no timeout); and, the outbound
\* call eventually settling, every request that arrived is eventually
\* answered.
C28_AnsweredAfterSendSettles ==
    /\ [](res.status = 200 => sent # NotSent)
    /\ [][(pc = "awaitSend" /\ pc' # "awaitSend")
            => (sent = NotSent /\ sent' # NotSent /\ writes' = writes + 1)]_vars
    /\ [](pc = "awaitSend" => res = NoResponse /\ writes = 0)
    /\ (Pending ~> pc = "done")

\* A request has been acknowledged after its outbound call was rejected.
C28_Witness ==
    /\ pc = "done" /\ res.status = 200
    /\ sent.outcome = "network_error"
    /\ Len(outbox) = 1

\* What the Hugging Face route answers and posts for request r at time t
\* under environment e when the fetch settles as s: the body parser, then
\* the handler, and nothing else.
HFAlone(e, r, t, s) ==
    LET p == expressJson("hf", r.wire, r.text)
    IN IF ~p.ok
       THEN [res |-> GlobalErrorHandler(e, p.status, p.message), outbox |-> <<>>]
       ELSE LET o == HFRouteOutcome(e, p.body, t)
            IN [res |-> IF o.send
                        THEN AfterSend([r EXCEPT !.payload = p.body], s.result)
                        ELSE o.res,
                outbox |-> IF o.send THEN DiscordPosts(o.embed) ELSE <<>>]

\* C29: the Hugging Face route verifies no signature: a request on it never
\* passes through the signature middleware and is never answered 401, and
\* its response and its notification are the same whatever signature header
\* it carries (absent, right or wrong) and whatever secret is configured.
C29_HFRouteIgnoresHeaders ==
    OnHF =>
        /\ res.status # 401
        /\ pc # "middleware"
        /\ (pc = "done") =>
              \A h \in RequestSignatures(env, TextToSign("hf", req.wire, req.text)),
                 s \in Secrets :
                  LET a == HFAlone([env EXCEPT !.secret = s],
                                   [req EXCEPT !.signature = h], now, sent)
                  IN res = a.res /\ outbox = a.outbox

\* A secret is configured, the request carries a header that is no valid
\* signature, and the event is delivered and acknowledged.
C29_Witness ==
    /\ pc = "done" /\ OnHF /\ SecretConfigured
    /\ req.signature = Str(Sha1Prefix)
    /\ req.payload.t = "object"
    /\ res.status = 200
    /\ Len(outbox) = 1

\* The terminal notifications of the script.
TerminalTypes == {"deployment.succeeded", "deployment.failed"}

\* The terminal notification a finished run owes: failed when the trigger
\* was refused or the last poll still failed, succeeded when a poll saw the
\* app live.
TerminalOwed ==
    IF Triggered(script.HTTP_CODE) /\ Live(script.HTTP_STATUS)
    THEN "deployment.succeeded"
    ELSE "deployment.failed"

\* C30: every finished run of deploy-outfitly.sh has posted
\* deployment.created first and then exactly one terminal notification:
\* deployment.succeeded when a poll (the 12th included) saw 200/301/302,
\* deployment.failed when the trigger was refused or the 12th poll still
\* failed; also when a notification or a poll request itself failed.
C30_CreatedThenOneTerminal ==
    script.pc = "exited" =>
        /\ Len(script.notified) = 2
        /\ script.notified[1].type = "deployment.created"
        /\ script.notified[2].type \in TerminalTypes
        /\ script.notified[2].type = TerminalOwed
        /\ script.i <= PollLimit
        /\ (script.notified[2].type = "deployment.failed") =>
              (~Triggered(script.HTTP_CODE) \/ script.i = PollLimit)

====
